---- MODULE Spec2Model ----
(***************************************************************************)
(* State-machine model of the MTG deck analyzer: the card/deck store       *)
(* (db.py), the categorizer (categorizer.py), deck import and manual       *)
(* tagging (cli.py, parser.py, scryfall.py), the batch external            *)
(* reclassification (llm_categorizer.py) and the analytics queries         *)
(* (analyzer.py).                                                          *)
(*                                                                         *)
(* Abstractions.  A card name is a string.  A type line is the set of its  *)
(* type words.  An oracle text is a record [empty, matches]: whether the   *)
(* text is the empty string, and the set of CATEGORY_PATTERNS keys one of  *)
(* whose regular expressions matches it (no pattern matches the empty      *)
(* text).  A JSON list of labels is a sequence of strings, a JSON object   *)
(* is a function.  avg_cmc is kept in hundredths.                          *)
(***************************************************************************)
EXTENDS Integers, Sequences, FiniteSets, Bags, TLC

VARIABLES
    cards,        \* table cards: card name -> row
    decks,        \* table decks: deck id -> row (with the stored statistics)
    deck_cards,   \* table deck_cards: deck id -> sequence of rows
    next_id,      \* AUTOINCREMENT counter of table decks
    llm_cache,    \* llm_category_cache.json: card name -> label list
    manual,       \* history: the cards whose categories a tag set wrote last
    last,         \* the last command run on the store and how it ended
    card_data,    \* categorizer run: the card handed to categorize_card
    categories,   \* categorizer run: the list categorize_card returned
    result,       \* analytics run: the last query and what it returned
    writers       \* concurrent tag runs: writer -> its position and locals

vars == <<cards, decks, deck_cards, next_id, llm_cache, manual, last,
          card_data, categories, result, writers>>

\* Python's None / SQL NULL: for a name, for a number, for a row or dict
None == "None"
Null == -1
Nothing == [none |-> TRUE]

(***************************************************************************)
(* Bounds                                                                  *)
(***************************************************************************)
\* number of deck rows ever inserted (ids are never reused)
MaxDeckId == 2

(***************************************************************************)
(* Labels and Python's sorted() on label lists                             *)
(***************************************************************************)
valid_categories ==
    {"ramp", "draw", "removal", "board_wipe", "counterspell",
     "tutor", "protection", "recursion", "land", "other"}

\* the keys of CATEGORY_PATTERNS, in the dictionary's order
CATEGORY_PATTERNS ==
    <<"ramp", "draw", "removal", "board_wipe", "counterspell",
      "tutor", "protection", "recursion">>

PatternCategories == {CATEGORY_PATTERNS[i] : i \in DOMAIN CATEGORY_PATTERNS}

\* every string that occurs as a label in the model, in Python's string order
LabelOrder ==
    <<"", "board_wipe", "combo", "counterspell", "draw", "land", "other",
      "protection", "ramp", "recursion", "removal", "tutor">>

LabelRank(l) == CHOOSE i \in DOMAIN LabelOrder : LabelOrder[i] = l

RECURSIVE InsertSorted(_, _)
InsertSorted(l, s) ==
    IF s = <<>> THEN <<l>>
    ELSE IF LabelRank(l) < LabelRank(Head(s)) THEN <<l>> \o s
    ELSE <<Head(s)>> \o InsertSorted(l, Tail(s))

\* sorted(list_of_labels)
RECURSIVE sorted(_)
sorted(s) == IF s = <<>> THEN <<>> ELSE InsertSorted(Head(s), sorted(Tail(s)))

\* sorted(set_of_labels)
RECURSIVE sorted_set(_)
sorted_set(S) ==
    IF S = {} THEN <<>>
    ELSE LET m == CHOOSE x \in S : \A y \in S : LabelRank(x) <= LabelRank(y)
         IN  <<m>> \o sorted_set(S \ {m})

Range(s) == {s[i] : i \in DOMAIN s}

(***************************************************************************)
(* categorizer.py                                                          *)
(***************************************************************************)
\* the reverse lookup built from KNOWN_STAPLES, for the names of the model
KNOWN_CARD_CATEGORIES(name) ==
    CASE name = "Sol Ring"      -> {"ramp"}
      [] name = "Rhystic Study" -> {"draw"}
      [] name = "Cyclonic Rift" -> {"removal", "board_wipe"}
      [] name = "Blasphemous Act" -> {"board_wipe"}
      [] name = "Counterspell"  -> {"counterspell"}
      [] name = "Demonic Tutor" -> {"tutor"}
      [] OTHER                  -> {}

\* categorize_card without the default of lines 161-162
categorize_card_no_default(cd) ==
    LET seeded == KNOWN_CARD_CATEGORIES(cd.name)
        tagged == IF cd.is_land THEN seeded \cup {"land"} ELSE seeded
        matched == tagged \cup cd.oracle_text.matches
        typed == IF "Land" \in cd.type_line /\ "land" \notin matched
                 THEN matched \cup {"land"} ELSE matched
    IN  IF cd.is_land /\ tagged \ {"land"} = {}
        THEN sorted_set(tagged)
        ELSE sorted_set(typed)

\* categorize_card without the early return of lines 143-144
categorize_card_no_return(cd) ==
    LET seeded == KNOWN_CARD_CATEGORIES(cd.name)
        tagged == IF cd.is_land THEN seeded \cup {"land"} ELSE seeded
        matched == tagged \cup cd.oracle_text.matches
        typed == IF "Land" \in cd.type_line /\ "land" \notin matched
                 THEN matched \cup {"land"} ELSE matched
        final == IF typed = {} THEN {"other"} ELSE typed
    IN  sorted_set(final)

categorize_card(cd) ==
    LET seeded == KNOWN_CARD_CATEGORIES(cd.name)
        tagged == IF cd.is_land THEN seeded \cup {"land"} ELSE seeded
        matched == tagged \cup cd.oracle_text.matches
        typed == IF "Land" \in cd.type_line /\ "land" \notin matched
                 THEN matched \cup {"land"} ELSE matched
        final == IF typed = {} THEN {"other"} ELSE typed
    IN  IF cd.is_land /\ tagged \ {"land"} = {}
        THEN sorted_set(tagged)
        ELSE sorted_set(final)

(***************************************************************************)
(* scryfall.py: the card metadata provider                                 *)
(***************************************************************************)
NoText == [empty |-> TRUE, matches |-> {}]
Text(m) == [empty |-> FALSE, matches |-> m]

\* the Scryfall card objects of the names used in the deck files
ScryfallJson ==
    [n \in {"Azami, Lady of Scrolls", "Island", "Cyclonic Rift",
            "Blasphemous Act", "Colossal Dreadmaw",
            "Lurrus of the Dream-Den", "Kenrith, the Returned King",
            "Niv-Mizzet, Parun", "Karn, Silver Golem"} |->
       CASE n = "Azami, Lady of Scrolls" ->
              [name |-> n, cmc |-> 5, type_line |-> {"Legendary", "Creature"},
               oracle_text |-> Text({"draw"}), color_identity |-> {"U"}]
         [] n = "Island" ->
              [name |-> n, cmc |-> 0, type_line |-> {"Basic", "Land"},
               oracle_text |-> Text({"ramp"}), color_identity |-> {"U"}]
         [] n = "Cyclonic Rift" ->
              [name |-> n, cmc |-> 2, type_line |-> {"Instant"},
               oracle_text |-> Text({}), color_identity |-> {"U"}]
         [] n = "Blasphemous Act" ->
              [name |-> n, cmc |-> 9, type_line |-> {"Sorcery"},
               oracle_text |-> Text({"board_wipe"}), color_identity |-> {"R"}]
         [] n = "Colossal Dreadmaw" ->
              [name |-> n, cmc |-> 6, type_line |-> {"Creature"},
               oracle_text |-> Text({}), color_identity |-> {"G"}]
         [] n = "Lurrus of the Dream-Den" ->
              [name |-> n, cmc |-> 3, type_line |-> {"Legendary", "Creature"},
               oracle_text |-> Text({}), color_identity |-> {"W", "B"}]
         [] n = "Kenrith, the Returned King" ->
              [name |-> n, cmc |-> 5, type_line |-> {"Legendary", "Creature"},
               oracle_text |-> Text({"draw", "recursion"}),
               color_identity |-> {"W", "U", "B", "R", "G"}]
         [] n = "Niv-Mizzet, Parun" ->
              [name |-> n, cmc |-> 6, type_line |-> {"Legendary", "Creature"},
               oracle_text |-> Text({"draw"}), color_identity |-> {"U", "R"}]
         [] n = "Karn, Silver Golem" ->
              [name |-> n, cmc |-> 5,
               type_line |-> {"Legendary", "Artifact", "Creature"},
               oracle_text |-> Text({}), color_identity |-> {}]]

_parse_scryfall_card(card_json) ==
    LET base == [scryfall_id |-> "uuid",
                 name        |-> card_json.name,
                 color_identity |-> card_json.color_identity,
                 cmc         |-> card_json.cmc,
                 type_line   |-> card_json.type_line,
                 oracle_text |-> card_json.oracle_text,
                 is_land     |-> "Land" \in card_json.type_line,
                 is_creature |-> "Creature" \in card_json.type_line]
    IN  base @@ [categories |-> categorize_card(base)]

\* online: the bulk data or the API is available to this run
Online == {TRUE}

lookup_card(name, online) ==
    IF online /\ name \in DOMAIN ScryfallJson
    THEN _parse_scryfall_card(ScryfallJson[name])
    ELSE Nothing

WUBRG == <<"W", "U", "B", "R", "G">>

ColorIndex(c) ==
    IF \E i \in DOMAIN WUBRG : WUBRG[i] = c
    THEN (CHOOSE i \in DOMAIN WUBRG : WUBRG[i] = c) - 1
    ELSE 99

\* sorted(colors, key=WUBRG index) of a set of colors
RECURSIVE SortColorSet(_)
SortColorSet(S) ==
    IF S = {} THEN <<>>
    ELSE LET m == CHOOSE x \in S : \A y \in S : ColorIndex(x) <= ColorIndex(y)
         IN  <<m>> \o SortColorSet(S \ {m})

get_commander_identity(commander_name, partner_name, online) ==
    LET card == lookup_card(commander_name, online)
        partner == IF partner_name = None THEN Nothing
                   ELSE lookup_card(partner_name, online)
        identity == IF partner = Nothing THEN card.color_identity
                    ELSE card.color_identity \cup partner.color_identity
    IN  IF card = Nothing THEN [identity |-> <<>>, cmc |-> 0]
        ELSE [identity |-> SortColorSet(identity), cmc |-> card.cmc]

(***************************************************************************)
(* parser.py.  A deck file is [filename, parts, exists, lines]: parts is   *)
(* the file's base name split on "--" with its first part split on "+"     *)
(* and its second part read as [numeric, value]; a line is [kind, name,    *)
(* quantity] with kind "commander" (COMMANDER: prefix), "companion"        *)
(* (COMPANION: prefix), "skip" (blank, comment, SIDEBOARD marker) or       *)
(* "card".                                                                 *)
(***************************************************************************)
parse_filename(f) ==
    IF f.parts < 2 THEN [raised |-> "ValueError"]
    ELSE [raised |-> None,
          commander_name |-> f.commander_raw[1],
          partner_name |-> IF Len(f.commander_raw) > 1
                           THEN f.commander_raw[2] ELSE None,
          bracket |-> IF f.bracket_raw.numeric
                      THEN f.bracket_raw.value ELSE Null]

parse_line(line) ==
    CASE line.kind = "commander" ->
           <<[name |-> line.name, quantity |-> 1, board |-> "commander"]>>
      [] line.kind = "companion" ->
           <<[name |-> line.name, quantity |-> 1, board |-> "sideboard"]>>
      [] line.kind = "skip" -> <<>>
      [] OTHER ->
           <<[name |-> line.name, quantity |-> line.quantity,
              board |-> "mainboard"]>>

\* one entry per line that is not skipped, in the order of the lines
parse_card_list(lines) ==
    LET kept == SelectSeq(lines, LAMBDA line : parse_line(line) # <<>>)
    IN  [i \in DOMAIN kept |-> parse_line(kept[i])[1]]

\* parse_deck_file, lines 170-182: make sure cname is on the commander board
mark_commander(rows, cname) ==
    LET hits == {i \in DOMAIN rows :
                   rows[i].name = cname /\ rows[i].board = "mainboard"}
        first == CHOOSE i \in hits : \A j \in hits : i <= j
    IN  IF \E i \in DOMAIN rows :
              rows[i].name = cname /\ rows[i].board = "commander"
        THEN rows
        ELSE IF hits # {}
        THEN [rows EXCEPT ![first].board = "commander"]
        ELSE Append(rows, [name |-> cname, quantity |-> 1,
                           board |-> "commander"])

parse_deck_file(f) ==
    LET meta == parse_filename(f)
        rows == parse_card_list(f.lines)
        marked == mark_commander(rows, meta.commander_name)
        all == IF meta.partner_name = None THEN marked
               ELSE mark_commander(marked, meta.partner_name)
    IN  IF meta.raised # None THEN [raised |-> meta.raised]
        ELSE IF ~f.exists THEN [raised |-> "FileNotFoundError"]
        ELSE [raised |-> None,
              commander_name |-> meta.commander_name,
              partner_name |-> meta.partner_name,
              bracket |-> meta.bracket,
              source_file |-> f.filename,
              cards |-> all]

(***************************************************************************)
(* db.py.  A store is [cards, decks, deck_cards, next_id].                 *)
(***************************************************************************)
DB == [cards |-> cards, decks |-> decks, deck_cards |-> deck_cards,
       next_id |-> next_id]

EmptyDB == [cards |-> <<>>, decks |-> <<>>, deck_cards |-> <<>>, next_id |-> 1]

\* the sum of f[x] over the x in S, for f with values in Nat: the size of the
\* bag holding f[x] copies of x
SumOver(f, S) == BagCardinality([x \in {y \in S : f[y] > 0} |-> f[x]])

Min(a, b) == IF a < b THEN a ELSE b

\* INSERT ... ON CONFLICT(name) DO UPDATE: every column but scryfall_id
insert_card(tbl, cd) ==
    IF cd.name \in DOMAIN tbl
    THEN [tbl EXCEPT ![cd.name] =
              [cd EXCEPT !.scryfall_id = tbl[cd.name].scryfall_id]]
    ELSE tbl @@ (cd.name :> cd)

insert_deck(db, deck_data) ==
    LET deck_id == db.next_id
        row == [source_file |-> deck_data.source_file,
                commander_name |-> deck_data.commander_name,
                partner_name |-> deck_data.partner_name,
                color_identity_key |-> deck_data.color_identity_key,
                bracket |-> deck_data.bracket,
                commander_cmc |-> deck_data.commander_cmc,
                total_cards |-> 0, avg_cmc |-> 0, land_count |-> 0,
                creature_count |-> 0, instant_sorcery_count |-> 0,
                curve |-> <<>>, category_counts |-> <<>>]
        entries == [i \in DOMAIN deck_data.cards |->
                      [card_name |-> deck_data.cards[i].name,
                       quantity |-> deck_data.cards[i].quantity,
                       board |-> deck_data.cards[i].board]]
    IN  [db EXCEPT !.decks = @ @@ (deck_id :> row),
                   !.deck_cards = @ @@ (deck_id :> entries),
                   !.next_id = deck_id + 1]

\* the rows of a deck under an inner join: a row whose card has no record
\* is dropped
JoinedRows_inner(db, deck_id) ==
    IF deck_id \in DOMAIN db.deck_cards
    THEN LET kept == SelectSeq(db.deck_cards[deck_id],
                               LAMBDA dc : dc.card_name \in DOMAIN db.cards)
         IN  [i \in DOMAIN kept |->
                LET c == db.cards[kept[i].card_name]
                IN  [quantity |-> kept[i].quantity, board |-> kept[i].board,
                     cmc |-> c.cmc, type_line |-> c.type_line,
                     is_land |-> c.is_land, is_creature |-> c.is_creature,
                     cats |-> c.categories]]
    ELSE <<>>

\* the rows of a deck, each LEFT JOINed with its card (Nothing when absent)
JoinedRows(db, deck_id) ==
    IF deck_id \in DOMAIN db.deck_cards
    THEN [i \in DOMAIN db.deck_cards[deck_id] |->
            LET dc == db.deck_cards[deck_id][i]
                c == IF dc.card_name \in DOMAIN db.cards
                     THEN db.cards[dc.card_name] ELSE Nothing
            IN  [quantity |-> dc.quantity, board |-> dc.board,
                 cmc |-> IF c = Nothing THEN 0 ELSE c.cmc,
                 type_line |-> IF c = Nothing THEN {} ELSE c.type_line,
                 is_land |-> IF c = Nothing THEN FALSE ELSE c.is_land,
                 is_creature |-> IF c = Nothing THEN FALSE ELSE c.is_creature,
                 cats |-> IF c = Nothing THEN <<>> ELSE c.categories]]
    ELSE <<>>

\* update_deck_stats, line 167: the rows the loop does not skip
counted_row(row) == row.board # "commander"

\* the bucket clamped one too low
curve_bucket_clamp5(cmc) == Min(cmc, 5)

\* update_deck_stats, line 181
curve_bucket(cmc) == Min(cmc, 6)

Occurrences(l, s) == Cardinality({i \in DOMAIN s : s[i] = l})

\* a card counted under its first label only
label_weight_primary(l, cats) == IF cats # <<>> /\ cats[1] = l THEN 1 ELSE 0

\* lines 190-192: what a card adds to the count of label l, per copy
label_weight(l, cats) == Occurrences(l, cats)

\* lines 155-194: the statistics accumulated over the rows with index in C
stats_over(rows, C) ==
    LET qty == [i \in DOMAIN rows |-> rows[i].quantity]
        nonland == {i \in C : ~rows[i].is_land}
        nonland_count == SumOver(qty, nonland)
        cmc_sum == SumOver([i \in DOMAIN rows |-> rows[i].cmc * qty[i]], nonland)
        labels == UNION {Range(rows[i].cats) : i \in C}
    IN  [total_cards |-> SumOver(qty, C),
         avg_cmc |-> IF nonland_count > 0
                     THEN (200 * cmc_sum + nonland_count) \div (2 * nonland_count)
                     ELSE 0,
         land_count |-> SumOver(qty, {i \in C : rows[i].is_land}),
         creature_count |-> SumOver(qty, {i \in C : rows[i].is_creature}),
         instant_sorcery_count |->
             SumOver(qty, {i \in C : "Instant" \in rows[i].type_line
                                     \/ "Sorcery" \in rows[i].type_line}),
         curve |-> [b \in 0..6 |->
                      SumOver(qty, {i \in nonland :
                                      curve_bucket(rows[i].cmc) = b})],
         category_counts |->
             [l \in labels |->
                SumOver([i \in DOMAIN rows |->
                           qty[i] * label_weight(l, rows[i].cats)], C)]]

\* the statistics update_deck_stats computes for a deck
deck_stats(db, deck_id) ==
    LET rows == JoinedRows(db, deck_id)
    IN  stats_over(rows, {i \in DOMAIN rows : counted_row(rows[i])})

StatFields == {"total_cards", "avg_cmc", "land_count", "creature_count",
               "instant_sorcery_count", "curve", "category_counts"}

\* the stored statistics of a deck row
StoredStats(row) == [k \in StatFields |-> row[k]]

\* the counts added to the stored ones instead of replacing them
update_deck_stats_accumulate(db, deck_id) ==
    LET st == deck_stats(db, deck_id)
    IN  IF deck_id \in DOMAIN db.decks
        THEN [db EXCEPT !.decks[deck_id] =
                 [k \in DOMAIN @ |->
                    IF k \in {"total_cards", "land_count"} THEN @[k] + st[k]
                    ELSE IF k \in StatFields THEN st[k] ELSE @[k]]]
        ELSE db

\* UPDATE decks SET <statistics> WHERE id = deck_id
update_deck_stats(db, deck_id) ==
    LET st == deck_stats(db, deck_id)
    IN  IF deck_id \in DOMAIN db.decks
        THEN [db EXCEPT !.decks[deck_id] =
                 [k \in DOMAIN @ |-> IF k \in StatFields THEN st[k] ELSE @[k]]]
        ELSE db

deck_exists(db, source_file) ==
    \E d \in DOMAIN db.decks : db.decks[d].source_file = source_file

\* a function restricted to a subset of its domain
Restrict(f, S) == [x \in S |-> f[x]]

(***************************************************************************)
(* llm_categorizer.py.  api is "ok" when an API key and the requests       *)
(* library are there; reply is the dictionary parsed from the classifier's *)
(* answer, restricted to its list values (a failed call is the empty       *)
(* reply).  All cards fit one batch.                                       *)
(***************************************************************************)
get_uncategorized_cards(db) ==
    {n \in DOMAIN db.cards :
        /\ db.cards[n].categories = <<"other">>
        /\ ~db.cards[n].oracle_text.empty
        /\ db.cards[n].scryfall_id # "stub"}

\* the names categorize_batch_llm sends to the API
uncached_cards(asked, cache) == asked \ DOMAIN cache

\* [results, cache] of categorize_batch_llm
categorize_batch_llm(asked, cache, api, reply) ==
    LET hits == Restrict(cache, asked \cap DOMAIN cache)
    IN  IF api # "ok" THEN [results |-> <<>>, cache |-> cache]
        ELSE IF uncached_cards(asked, cache) = {}
        THEN [results |-> hits, cache |-> cache]
        ELSE [results |-> reply @@ hits, cache |-> reply @@ cache]

\* lines 215-222: the category list apply_llm_categories stores for a card
llm_new_categories(card, results) ==
    IF card.name \in DOMAIN results /\ results[card.name] # <<"other">>
    THEN sorted(results[card.name])
    ELSE card.categories

\* lines 228-231: the decks holding a card named in results
decks_with_any(db, names) ==
    {d \in DOMAIN db.deck_cards :
        \E i \in DOMAIN db.deck_cards[d] :
            db.deck_cards[d][i].card_name \in names}

\* [db, cache, updated, raised, recomputed] of apply_llm_categories; the loop
\* of lines 234-235 reads column "id" of a row that only has "deck_id"
apply_llm_categories(db, cache, api, reply) ==
    LET uncategorized == get_uncategorized_cards(db)
        r == categorize_batch_llm(uncategorized, cache, api, reply)
        updated == {n \in uncategorized :
                       n \in DOMAIN r.results /\ r.results[n] # <<"other">>}
        db1 == [db EXCEPT !.cards =
                   [n \in DOMAIN db.cards |->
                      IF n \in uncategorized
                      THEN [db.cards[n] EXCEPT !.categories =
                               llm_new_categories(db.cards[n], r.results)]
                      ELSE db.cards[n]]]
        deck_ids == decks_with_any(db1, DOMAIN r.results)
    IN  IF uncategorized = {}
        THEN [db |-> db, cache |-> cache, updated |-> {}, raised |-> None,
              recomputed |-> {}]
        ELSE [db |-> db1, cache |-> r.cache, updated |-> updated,
              raised |-> IF updated # {} /\ deck_ids # {}
                         THEN "IndexError" ELSE None,
              recomputed |-> {}]

(***************************************************************************)
(* cli.py                                                                  *)
(***************************************************************************)
\* "land" in name.lower(), for the names of the model
NameHasLand(name) == name \in {"Island", "Forest Land"}

\* cmd_import, lines 144-157
stub_card(name) ==
    [scryfall_id |-> "stub", name |-> name, color_identity |-> {},
     cmc |-> 0, type_line |-> {}, oracle_text |-> NoText,
     is_land |-> NameHasLand(name), is_creature |-> FALSE,
     categories |-> <<"other">>]

\* cmd_import, lines 133-159: insert every card of the deck, or its stub.  The
\* entries of one name insert the same row, and an upsert leaves the
\* scryfall_id of the first insert, so the loop leaves each name of the deck
\* as one insert_card into the table it started from does.
enrich_cards(tbl, entries, online) ==
    LET names == {entries[i].name : i \in DOMAIN entries}
        found(n) == lookup_card(n, online)
        cd(n) == IF found(n) # Nothing THEN found(n) ELSE stub_card(n)
    IN  [n \in DOMAIN tbl \cup names |->
            IF n \in names THEN insert_card(tbl, cd(n))[n] ELSE tbl[n]]

\* DELETE FROM decks WHERE source_file = ?, with ON DELETE CASCADE
delete_decks(db, source_file) ==
    LET keep == {d \in DOMAIN db.decks : db.decks[d].source_file # source_file}
    IN  [db EXCEPT !.decks = Restrict(@, keep),
                   !.deck_cards = Restrict(@, keep)]

\* [db, status, inserted, recomputed] of the loop body of cmd_import for one file
import_file(db, f, force, online) ==
    LET dup == deck_exists(db, f.filename)
        db1 == IF force /\ dup THEN delete_decks(db, f.filename) ELSE db
        deck_data == parse_deck_file(f)
        ident == get_commander_identity(deck_data.commander_name,
                                        deck_data.partner_name, online)
        full == deck_data @@ [color_identity_key |-> ident.identity,
                              commander_cmc |-> ident.cmc]
        db2 == [db1 EXCEPT !.cards = enrich_cards(@, deck_data.cards, online)]
        db3 == insert_deck(db2, full)
        db4 == update_deck_stats(db3, db1.next_id)
    IN  IF dup /\ ~force
        THEN [db |-> db, status |-> "skipped", inserted |-> {},
              recomputed |-> {}]
        ELSE IF deck_data.raised # None
        THEN [db |-> db1, status |-> "error", inserted |-> {},
              recomputed |-> {}]
        ELSE [db |-> db4, status |-> "imported",
              inserted |-> {deck_data.cards[i].name : i \in DOMAIN deck_data.cards},
              recomputed |-> {db1.next_id}]

\* name LIKE %arg%: the card names that contain arg, ignoring case
LikeMatches(arg) ==
    CASE arg = "dread" -> {"Colossal Dreadmaw"}
      [] OTHER         -> IF arg \in DOMAIN ScryfallJson THEN {arg} ELSE {}

\* cmd_tag, lines 477-488: the rows fetchone() may return
tag_targets(db, arg) ==
    IF arg \in DOMAIN db.cards THEN {arg}
    ELSE LikeMatches(arg) \cap DOMAIN db.cards

decks_with_card(db, card_name) == decks_with_any(db, {card_name})

RECURSIVE update_all(_, _)
update_all(db, ids) ==
    IF ids = {} THEN db
    ELSE LET d == CHOOSE x \in ids : TRUE
         IN  update_all(update_deck_stats(db, d), ids \ {d})

\* cmd_tag set, lines 493-505, for the matched card
tag_set(db, card_name, cats) ==
    LET db1 == [db EXCEPT !.cards[card_name].categories = sorted(cats)]
    IN  update_all(db1, decks_with_card(db1, card_name))

(***************************************************************************)
(* The inputs of the commands                                              *)
(***************************************************************************)
Line(kind, name, quantity) == [kind |-> kind, name |-> name, quantity |-> quantity]

FileWizards ==
    [filename |-> "Azami, Lady of Scrolls--2--Wizards.txt", parts |-> 3,
     commander_raw |-> <<"Azami, Lady of Scrolls">>,
     bracket_raw |-> [numeric |-> TRUE, value |-> 2],
     lines |-> << Line("commander", "Azami, Lady of Scrolls", 1),
                  Line("card", "Island", 2),
                  Line("card", "Cyclonic Rift", 1),
                  Line("card", "Blasphemous Act", 1),
                  Line("card", "Colossal Dreadmaw", 1) >>]

FileDreams ==
    [filename |-> "Azami, Lady of Scrolls--x--Dreams.txt", parts |-> 3,
     commander_raw |-> <<"Azami, Lady of Scrolls">>,
     bracket_raw |-> [numeric |-> FALSE, value |-> 0],
     lines |-> << Line("card", "Azami, Lady of Scrolls", 1),
                  Line("skip", "", 0),
                  Line("card", "Island", 3),
                  Line("card", "Forest Land", 1),
                  Line("card", "Colossal Dreadmaw", 1),
                  Line("companion", "Lurrus of the Dream-Den", 1) >>]

FileNotes ==
    [filename |-> "notes.txt", parts |-> 1,
     commander_raw |-> <<"notes">>,
     bracket_raw |-> [numeric |-> FALSE, value |-> 0],
     lines |-> <<>>]

FileCats ==
    [filename |-> "Lurrus of the Dream-Den+Azami, Lady of Scrolls--3--Cats.txt",
     parts |-> 4,
     commander_raw |-> <<"Lurrus of the Dream-Den", "Azami, Lady of Scrolls">>,
     bracket_raw |-> [numeric |-> TRUE, value |-> 3],
     lines |-> << Line("card", "Island", 1),
                  Line("card", "Colossal Dreadmaw", 1),
                  Line("card", "Cyclonic Rift", 1) >>]

\* the files handed to import
DeckFiles == {FileWizards, FileDreams, FileNotes}

\* the card_name argument of tag set
TagNames == {"Colossal Dreadmaw", "dread", "Sol Ring"}

\* the categories argument of tag set, split on commas, stripped, lowered
TagCategories == { <<"other">>, <<"removal", "draw">>, <<"combo">> }

\* the lists the classifier may answer for a card
LLMAnswers == { <<>>, <<"other">>, <<"ramp", "draw">> }

\* the replies of the classifier to a request for the uncached cards
Replies(db, cache) ==
    UNION { [S -> LLMAnswers] :
              S \in SUBSET uncached_cards(get_uncategorized_cards(db), cache) }

(***************************************************************************)
(* The store commands                                                      *)
(***************************************************************************)
NoRun == [op |-> "none", status |-> "ok", raised |-> None,
          updated |-> {}, recomputed |-> {}]

Init ==
    /\ cards = <<>>
    /\ decks = <<>>
    /\ deck_cards = <<>>
    /\ next_id = 1
    /\ llm_cache = <<>>
    /\ manual = {}
    /\ last = NoRun
    /\ card_data = Nothing
    /\ categories = <<>>
    /\ result = Nothing
    /\ writers = <<>>

SetDB(db) ==
    /\ cards' = db.cards
    /\ decks' = db.decks
    /\ deck_cards' = db.deck_cards
    /\ next_id' = db.next_id

\* cli.py import -f FILE [--force]
Import(f, force, online, exists) ==
    /\ next_id <= MaxDeckId
    /\ \E r \in {import_file(DB, f @@ [exists |-> exists], force, online)} :
        /\ SetDB(r.db)
        /\ last' = [op |-> "import", status |-> r.status, raised |-> None,
                    updated |-> {}, recomputed |-> r.recomputed]
        /\ manual' = manual \ r.inserted
        /\ UNCHANGED <<writers, llm_cache, card_data, categories, result>>

\* cli.py import -f FILE [--force] --categorize, for a file that is imported
ImportCategorize(f, force, online, api) ==
    /\ next_id <= MaxDeckId
    /\ \E r \in {import_file(DB, f @@ [exists |-> TRUE], force, online)} :
        /\ r.status = "imported"
        /\ \E reply \in IF api = "ok" THEN Replies(r.db, llm_cache) ELSE {<<>>} :
           \E a \in {apply_llm_categories(r.db, llm_cache, api, reply)} :
                 /\ SetDB(a.db)
                 /\ llm_cache' = a.cache
                 /\ last' = [op |-> "import", status |-> r.status,
                             raised |-> a.raised, updated |-> a.updated,
                             recomputed |-> IF a.updated = {}
                                            THEN r.recomputed ELSE {}]
        /\ manual' = manual \ r.inserted
        /\ UNCHANGED <<writers, card_data, categories, result>>

\* cli.py tag set CARD CATEGORIES
Tag(arg, cats) ==
    /\ IF \E i \in DOMAIN cats : cats[i] \notin valid_categories
       THEN /\ last' = [NoRun EXCEPT !.op = "tag", !.status = "invalid"]
            /\ UNCHANGED <<cards, decks, deck_cards, next_id, manual>>
       ELSE IF tag_targets(DB, arg) = {}
       THEN /\ last' = [NoRun EXCEPT !.op = "tag", !.status = "not found"]
            /\ UNCHANGED <<cards, decks, deck_cards, next_id, manual>>
       ELSE \E card_name \in tag_targets(DB, arg) :
            \E db \in {tag_set(DB, card_name, cats)} :
            /\ SetDB(db)
            /\ manual' = manual \cup {card_name}
            /\ last' = [NoRun EXCEPT !.op = "tag", !.updated = {card_name},
                          !.recomputed = decks_with_card(DB, card_name)]
    /\ UNCHANGED <<writers, llm_cache, card_data, categories, result>>

\* cli.py categorize
Categorize(api, reply) ==
    \E a \in {apply_llm_categories(DB, llm_cache, api, reply)} :
        /\ SetDB(a.db)
        /\ llm_cache' = a.cache
        /\ last' = [op |-> "categorize", status |-> "ok",
                    raised |-> a.raised, updated |-> a.updated,
                    recomputed |-> a.recomputed]
        /\ UNCHANGED <<writers, manual, card_data, categories, result>>

ApiStates == {"ok", "no key"}

Next ==
    \/ \E f \in DeckFiles, force, exists \in BOOLEAN, online \in Online :
         Import(f, force, online, exists)
    \/ \E f \in DeckFiles, force \in BOOLEAN, online \in Online,
          api \in ApiStates :
         ImportCategorize(f, force, online, api)
    \/ \E arg \in TagNames, cats \in TagCategories : Tag(arg, cats)
    \/ \E api \in ApiStates :
       \E reply \in IF api = "ok" THEN Replies(DB, llm_cache) ELSE {<<>>} :
         Categorize(api, reply)

Spec == Init /\ [][Next]_vars

(***************************************************************************)
(* The aggregator run on its own on a deck of the store                    *)
(***************************************************************************)
\* db.update_deck_stats(conn, deck_id); status tells whether the deck's
\* statistics had just been computed, with no write in between
UpdateDeckStats(d) ==
    \E db \in {update_deck_stats(DB, d)} :
        /\ SetDB(db)
        /\ last' = [NoRun EXCEPT !.op = "update_deck_stats",
                                 !.status = IF d \in last.recomputed
                                            THEN "rerun" ELSE "run",
                                 !.recomputed = {d}]
        /\ UNCHANGED <<writers, llm_cache, manual, card_data, categories,
                       result>>

NextStats ==
    \/ Next
    \/ \E d \in DOMAIN decks : UpdateDeckStats(d)

SpecStats == Init /\ [][NextStats]_vars

(***************************************************************************)
(* analyzer.py.  A filter is [color_identity, bracket, commander_cmc,      *)
(* commander_name, color_mode]; color_identity is [none, colors], a number *)
(* not given is Null and a name not given is None.  Of a query's success   *)
(* payload the model keeps the deck counts.                                *)
(***************************************************************************)
RECURSIVE InsertColor(_, _)
InsertColor(c, s) ==
    IF s = <<>> THEN <<c>>
    ELSE IF ColorIndex(c) < ColorIndex(Head(s)) THEN <<c>> \o s
    ELSE <<Head(s)>> \o InsertColor(c, Tail(s))

\* sorted(colors, key=WUBRG index), as a key
RECURSIVE _color_key(_)
_color_key(colors) ==
    IF colors = <<>> THEN <<>>
    ELSE InsertColor(Head(colors), _color_key(Tail(colors)))

\* color_identity_key LIKE %color%
KeyLike(key, color) == color \in Range(key)

\* one queried color in the key is enough
contains_any(key, colors) ==
    colors = <<>> \/ \E c \in Range(colors) : KeyLike(key, c)

\* lines 28-32: one LIKE condition for each queried color
contains_condition(key, colors) ==
    \A c \in Range(colors) : KeyLike(key, c)

\* some symbol outside the queried colors is missing from the key
subset_one_excluded(key, colors) ==
    \E c \in Range(WUBRG) :
        c \notin Range(_color_key(colors)) => ~KeyLike(key, c)

\* lines 33-42: one NOT LIKE condition for each symbol not queried
subset_condition(key, colors) ==
    \A c \in Range(WUBRG) :
        c \notin Range(_color_key(colors)) => ~KeyLike(key, c)

color_condition(key, flt) ==
    IF flt.color_identity.none THEN TRUE
    ELSE CASE flt.color_mode = "exact" ->
                key = _color_key(flt.color_identity.colors)
           [] flt.color_mode = "contains" ->
                contains_condition(key, flt.color_identity.colors)
           [] flt.color_mode = "subset" ->
                subset_condition(key, flt.color_identity.colors)
           [] OTHER -> TRUE

\* the commander name compared with the primary commander only
_get_matching_deck_ids_primary(db, flt) ==
    {d \in DOMAIN db.decks :
        /\ color_condition(db.decks[d].color_identity_key, flt)
        /\ flt.bracket # Null => db.decks[d].bracket = flt.bracket
        /\ flt.commander_cmc # Null =>
               db.decks[d].commander_cmc = flt.commander_cmc
        /\ flt.commander_name # None =>
               db.decks[d].commander_name = flt.commander_name}

_get_matching_deck_ids(db, flt) ==
    {d \in DOMAIN db.decks :
        /\ color_condition(db.decks[d].color_identity_key, flt)
        /\ flt.bracket # Null => db.decks[d].bracket = flt.bracket
        /\ flt.commander_cmc # Null =>
               db.decks[d].commander_cmc = flt.commander_cmc
        /\ flt.commander_name # None =>
               \/ db.decks[d].commander_name = flt.commander_name
               \/ db.decks[d].partner_name = flt.commander_name}

Error(msg, n) == [error |-> msg, deck_count |-> n]
Success(n) == [error |-> None, deck_count |-> n]

\* curve_json is never the empty string, so every matching deck has a curve
get_curve_profile(db, flt) ==
    LET deck_ids == _get_matching_deck_ids(
                        db, [flt EXCEPT !.commander_name = None])
        curves == {d \in deck_ids : TRUE}
    IN  IF deck_ids = {} THEN Error("No matching decks found", 0)
        ELSE IF curves = {}
        THEN Error("No curve data available", Cardinality(deck_ids))
        ELSE Success(Cardinality(deck_ids))

get_category_distribution(db, flt) ==
    LET deck_ids == _get_matching_deck_ids(
                        db, [flt EXCEPT !.commander_cmc = Null,
                                        !.commander_name = None])
    IN  IF deck_ids = {} THEN Error("No matching decks found", 0)
        ELSE Success(Cardinality(deck_ids))

\* Python's order of the card names of the stores: sorted() compares strings
\* by code point
NameOrder ==
    << "Azami, Lady of Scrolls", "Blasphemous Act", "Brainstorm",
       "Colossal Dreadmaw", "Counterspell", "Cultivate", "Cyclonic Rift",
       "Fact or Fiction", "Farseek", "Filler 01", "Filler 02", "Filler 03",
       "Filler 04", "Filler 05", "Filler 06", "Filler 07", "Filler 08",
       "Filler 09", "Filler 10", "Filler 11", "Filler 12", "Filler 13",
       "Filler 14", "Filler 15", "Filler 16", "Filler 17", "Filler 18",
       "Filler 19", "Filler 20", "Filler 21", "Forest Land", "Harmonize",
       "Island", "Kodama's Reach", "Llanowar Elves",
       "Lurrus of the Dream-Den", "Negate", "Opt", "Ponder", "Preordain",
       "Rampant Growth", "Sol Ring", "Thassa's Oracle" >>

NameRank(n) == CHOOSE i \in DOMAIN NameOrder : NameOrder[i] = n

\* sorted(names) of a set of card names
RECURSIVE sorted_names(_)
sorted_names(S) ==
    IF S = {} THEN <<>>
    ELSE LET m == CHOOSE x \in S : \A y \in S : NameRank(x) <= NameRank(y)
         IN  <<m>> \o sorted_names(S \ {m})

\* round(n / d * 100, 1) counted in tenths, for n >= 0 and d > 0: the nearest
\* tenth, a tie going to the even one.  A tie needs 16 to divide d, so the
\* floating-point value never decides for the deck counts of the stores here.
RoundTenths(n, d) ==
    LET q == (1000 * n) \div d
        r == (1000 * n) % d
    IN  IF 2 * r > d \/ (2 * r = d /\ q % 2 = 1) THEN q + 1 ELSE q

\* the card names on the mainboard of the decks of deck_ids
mainboard_names(db, deck_ids) ==
    UNION { {db.deck_cards[d][i].card_name :
                i \in {j \in DOMAIN db.deck_cards[d] :
                          db.deck_cards[d][j].board = "mainboard"}} :
            d \in deck_ids }

\* card_decks[name]: the decks of deck_ids with the card on their mainboard
card_decks(db, deck_ids, name) ==
    {d \in deck_ids :
        \E i \in DOMAIN db.deck_cards[d] :
            /\ db.deck_cards[d][i].card_name = name
            /\ db.deck_cards[d][i].board = "mainboard"}

\* the rows of the query of lines 89-99: the mainboard cards of the decks
\* that are in at least min_appearances of them
top_rows(db, deck_ids, min_appearances) ==
    {n \in mainboard_names(db, deck_ids) :
        Cardinality(card_decks(db, deck_ids, n)) >= min_appearances}

\* the last label of the joined card taken for the first
primary_category_last(db, name) ==
    IF name \in DOMAIN db.cards /\ db.cards[name].categories # <<>>
    THEN db.cards[name].categories[Len(db.cards[name].categories)]
    ELSE "other"

\* cats[0] if cats else "other", for the categories of the joined card
primary_category(db, name) ==
    IF name \in DOMAIN db.cards /\ db.cards[name].categories # <<>>
    THEN db.cards[name].categories[1]
    ELSE "other"

\* cards_by_category: under each primary category the entries of its cards;
\* the order of the entries in a bucket is not kept
cards_by_category(db, deck_ids, min_appearances) ==
    LET rows == top_rows(db, deck_ids, min_appearances)
    IN  [cat \in {primary_category(db, n) : n \in rows} |->
            { [name |-> n,
               appearances |-> Cardinality(card_decks(db, deck_ids, n)),
               percentage |-> RoundTenths(Cardinality(card_decks(db, deck_ids, n)),
                                          Cardinality(deck_ids))] :
              n \in {m \in rows : primary_category(db, m) = cat} }]

\* get_top_cards without the check of lines 85-86
get_top_cards_unchecked(db, flt, limit, min_appearances) ==
    LET deck_ids == _get_matching_deck_ids(
                        db, [flt EXCEPT !.commander_cmc = Null,
                                        !.commander_name = None])
    IN  [error |-> None, deck_count |-> Cardinality(deck_ids),
         cards_by_category |->
             cards_by_category(db, deck_ids, min_appearances)]

\* limit is not used in the body
get_top_cards(db, flt, limit, min_appearances) ==
    LET deck_ids == _get_matching_deck_ids(
                        db, [flt EXCEPT !.commander_cmc = Null,
                                        !.commander_name = None])
    IN  IF deck_ids = {} THEN Error("No matching decks found", 0)
        ELSE [error |-> None, deck_count |-> Cardinality(deck_ids),
              cards_by_category |->
                  cards_by_category(db, deck_ids, min_appearances)]

AutoIncludes == {"Sol Ring", "Command Tower", "Arcane Signet"}

\* only the cards in at least half of the decks are kept
common_cards_half(db, deck_ids) ==
    LET names == {n \in mainboard_names(db, deck_ids) :
                     /\ 2 * Cardinality(card_decks(db, deck_ids, n))
                            >= Cardinality(deck_ids)
                     /\ n \notin AutoIncludes}
    IN  [n \in names |-> card_decks(db, deck_ids, n)]

\* every mainboard card is kept
common_cards_all(db, deck_ids) ==
    [n \in mainboard_names(db, deck_ids) |-> card_decks(db, deck_ids, n)]

\* common_cards: the cards in at least 30% of the decks, auto-includes skipped
common_cards(db, deck_ids) ==
    LET names == {n \in mainboard_names(db, deck_ids) :
                     /\ 10 * Cardinality(card_decks(db, deck_ids, n))
                            >= 3 * Cardinality(deck_ids)
                     /\ n \notin AutoIncludes}
    IN  [n \in names |-> card_decks(db, deck_ids, n)]

\* the keys of common_cards in the order the rows first gave them; order is
\* the order in which the query returns the card names
common_keys(common, order) == SelectSeq(order, LAMBDA n : n \in DOMAIN common)

\* the keys left in the order of the rows
card_names_unsorted(keys) == keys

\* line 238: sorted(common_cards.keys())
card_names(keys) == sorted_names(Range(keys))

\* the index of name n in the list names
Position(names, n) == CHOOSE i \in DOMAIN names : names[i] = n

\* co_occurrence: the pairs (card_a before card_b in card_names) whose Jaccard
\* similarity shared / union is at least min_co_occurrence (in hundredths)
co_occurrence(common, names, min_co_occurrence) ==
    {p \in (DOMAIN common) \X (DOMAIN common) :
        /\ Position(names, p[1]) < Position(names, p[2])
        /\ Cardinality(common[p[1]] \cup common[p[2]]) > 0
        /\ 100 * Cardinality(common[p[1]] \cap common[p[2]])
              >= min_co_occurrence * Cardinality(common[p[1]] \cup common[p[2]])}

\* pair p comes no later than pair q in sorted(co_occurrence.items(),
\* key=-score): the higher score first, equal scores in the order the pairs
\* were entered (card_a, then card_b, in the order of card_names)
pair_before(common, names, p, q) ==
    LET sp == Cardinality(common[p[1]] \cap common[p[2]])
        up == Cardinality(common[p[1]] \cup common[p[2]])
        sq == Cardinality(common[q[1]] \cap common[q[2]])
        uq == Cardinality(common[q[1]] \cup common[q[2]])
    IN  \/ sp * uq > sq * up
        \/ /\ sp * uq = sq * up
           /\ \/ Position(names, p[1]) < Position(names, q[1])
              \/ /\ p[1] = q[1]
                 /\ Position(names, p[2]) <= Position(names, q[2])

RECURSIVE sorted_pairs(_, _, _)
sorted_pairs(common, names, pairs) ==
    IF pairs = {} THEN <<>>
    ELSE LET p == CHOOSE x \in pairs :
                      \A y \in pairs : pair_before(common, names, x, y)
         IN  <<p>> \o sorted_pairs(common, names, pairs \ {p})

\* the pair of card_c and one member of the cluster meeting the threshold is
\* enough
fits_some(cluster, card_c, pairs, min_co_occurrence) ==
    \E member \in cluster :
        LET pair == IF NameRank(card_c) < NameRank(member)
                    THEN <<card_c, member>> ELSE <<member, card_c>>
        IN  ~(pair \notin pairs /\ 0 < min_co_occurrence)

\* co_occurrence.get(pair, 0) < min_co_occurrence is false for card_c and
\* every member of the cluster, pair being tuple(sorted([card_c, member]))
fits(cluster, card_c, pairs, min_co_occurrence) ==
    \A member \in cluster :
        LET pair == IF NameRank(card_c) < NameRank(member)
                    THEN <<card_c, member>> ELSE <<member, card_c>>
        IN  ~(pair \notin pairs /\ 0 < min_co_occurrence)

\* the cluster grown over card_names (lines 259-270)
RECURSIVE grow(_, _, _, _, _)
grow(cluster, names, used, pairs, min_co_occurrence) ==
    IF names = <<>> THEN cluster
    ELSE LET card_c == Head(names)
         IN  IF card_c \in cluster \/ card_c \in used
             THEN grow(cluster, Tail(names), used, pairs, min_co_occurrence)
             ELSE IF fits(cluster, card_c, pairs, min_co_occurrence)
             THEN grow(cluster \cup {card_c}, Tail(names), used, pairs,
                       min_co_occurrence)
             ELSE grow(cluster, Tail(names), used, pairs, min_co_occurrence)

\* a cluster with fewer members than min_cards is emitted all the same
emitted_any_size(cluster, min_cards) == Cardinality(cluster) >= 2

\* line 272
emitted(cluster, min_cards) == Cardinality(cluster) >= min_cards

\* the decks with any card of the cluster
decks_with_some(common, cluster) == UNION {common[c] : c \in cluster}

\* set.intersection(*(common_cards[c] for c in cluster))
decks_with_all(common, cluster) ==
    {d \in UNION {common[c] : c \in cluster} : \A c \in cluster : d \in common[c]}

package(common, cluster, total_decks) ==
    LET n == Cardinality(decks_with_all(common, cluster))
    IN  [cards |-> sorted_names(cluster),
         frequency |-> RoundTenths(n, total_decks),
         deck_count |-> n]

\* the greedy loop of lines 253-280 over the sorted pairs
RECURSIVE build_packages(_, _, _, _)
build_packages(ctx, todo, used, packages) ==
    IF todo = <<>> THEN packages
    ELSE LET a == Head(todo)[1]
             b == Head(todo)[2]
             cluster == grow({a, b}, ctx.card_names, used, ctx.pairs,
                             ctx.min_co_occurrence)
         IN  IF a \in used /\ b \in used
             THEN build_packages(ctx, Tail(todo), used, packages)
             ELSE IF emitted(cluster, ctx.min_cards)
             THEN build_packages(ctx, Tail(todo), used \cup cluster,
                      Append(packages,
                             package(ctx.common, cluster, ctx.total_decks)))
             ELSE build_packages(ctx, Tail(todo), used, packages)

\* packages.sort(key=-frequency): a stable sort
RECURSIVE insert_package(_, _)
insert_package(p, s) ==
    IF s = <<>> THEN <<p>>
    ELSE IF p.frequency > Head(s).frequency THEN <<p>> \o s
    ELSE <<Head(s)>> \o insert_package(p, Tail(s))

RECURSIVE sort_packages(_)
sort_packages(s) ==
    IF s = <<>> THEN <<>>
    ELSE insert_package(Head(s), sort_packages(Tail(s)))

\* fewer than 2 decks are too few
too_few_decks_for_pairs(deck_ids) == Cardinality(deck_ids) < 2

\* line 212
too_few_decks(deck_ids) == Cardinality(deck_ids) < 3

\* min_co_occurrence is in hundredths; frequency is in tenths of a percent
find_packages(db, flt, min_co_occurrence, min_cards, order) ==
    LET deck_ids == _get_matching_deck_ids(
                        db, [flt EXCEPT !.commander_cmc = Null,
                                        !.commander_name = None])
        common == common_cards(db, deck_ids)
        names == card_names(common_keys(common, order))
        pairs == co_occurrence(common, names, min_co_occurrence)
        ctx == [common |-> common, card_names |-> names,
                pairs |-> pairs, min_co_occurrence |-> min_co_occurrence,
                min_cards |-> min_cards,
                total_decks |-> Cardinality(deck_ids)]
    IN  IF too_few_decks(deck_ids)
        THEN Error("Need at least 3 matching decks for package detection",
                   Cardinality(deck_ids))
        ELSE [error |-> None, deck_count |-> Cardinality(deck_ids),
              packages |-> sort_packages(
                  build_packages(ctx, sorted_pairs(common, names, pairs),
                                 {}, <<>>))]

\* the fraction of the decks of deck_ids with the card on their mainboard, as
\* [cnt, total]; a card in none of them has frequency 0
get_card_frequencies(db, deck_ids, name) ==
    [cnt |-> Cardinality(card_decks(db, deck_ids, name)),
     total |-> Cardinality(deck_ids)]

Abs(x) == IF x < 0 THEN -x ELSE x

\* round(f * 100, 1) of the fraction f = n / d, in tenths, n of either sign
RoundSigned(n, d) == IF n < 0 THEN -RoundTenths(-n, d) ELSE RoundTenths(n, d)

\* fa - fb as the fraction [n, d]: positive means more common in bracket_a
rate_diff_a_minus_b(fa, fb) ==
    [n |-> fa.cnt * fb.total - fb.cnt * fa.total, d |-> fa.total * fb.total]

\* diff = fb - fa as the fraction [n, d]
rate_diff(fa, fb) ==
    [n |-> fb.cnt * fa.total - fa.cnt * fb.total, d |-> fa.total * fb.total]

\* fa, fb and 0.2 are doubles.  For rates that are exactly 20 points apart
\* the rounding of the quotients and of the subtraction decides abs(diff) > 0.2:
\* these are the <<cnt_a, total_a, cnt_b, total_b>>, with totals up to 10, for
\* which it holds (IEEE 754 binary64, as CPython computes cnt / total and
\* fb - fa).  For rates not exactly 20 points apart the doubles compare as the
\* fractions do.
RoundedAboveFifth ==
    { <<3, 5, 4, 5>>, <<4, 5, 3, 5>>, <<3, 5, 8, 10>>, <<4, 5, 6, 10>>,
      <<6, 10, 4, 5>>, <<8, 10, 3, 5>>, <<6, 10, 8, 10>>, <<7, 10, 9, 10>>,
      <<8, 10, 6, 10>>, <<9, 10, 7, 10>> }

\* line 327: abs(diff) > 0.2
differs(fa, fb) ==
    \/ 5 * Abs(rate_diff(fa, fb).n) > rate_diff(fa, fb).d
    \/ /\ 5 * Abs(rate_diff(fa, fb).n) = rate_diff(fa, fb).d
       /\ <<fa.cnt, fa.total, fb.cnt, fb.total>> \in RoundedAboveFifth

\* the entry of a card when abs(diff) > 0.2, else no entry
diff_entries(db, ids_a, ids_b, card) ==
    LET fa == get_card_frequencies(db, ids_a, card)
        fb == get_card_frequencies(db, ids_b, card)
        diff == rate_diff(fa, fb)
    IN  IF differs(fa, fb)
        THEN << [name |-> card,
                 pct_a |-> RoundTenths(fa.cnt, fa.total),
                 pct_b |-> RoundTenths(fb.cnt, fb.total),
                 diff |-> RoundSigned(diff.n, diff.d)] >>
        ELSE <<>>

\* diffs, appended in the order the set all_cards is iterated in
collect_diffs(db, ids_a, ids_b, order) ==
    LET all_cards == mainboard_names(db, ids_a \cup ids_b)
        differing == SelectSeq(order, LAMBDA card :
                        /\ card \in all_cards
                        /\ diff_entries(db, ids_a, ids_b, card) # <<>>)
    IN  [i \in DOMAIN differing |->
            diff_entries(db, ids_a, ids_b, differing[i])[1]]

\* diffs.sort(key=-abs(diff)), a stable sort: the entry at i moves behind the
\* entries of a greater abs(diff) and the earlier entries of the same one
sort_diffs(s) ==
    LET place(i) == 1 + Cardinality({j \in DOMAIN s :
                            \/ Abs(s[j].diff) > Abs(s[i].diff)
                            \/ Abs(s[j].diff) = Abs(s[i].diff) /\ j < i})
    IN  [k \in DOMAIN s |-> s[CHOOSE i \in DOMAIN s : place(i) = k]]

\* [d for d in diffs if d["diff"] > 0] when sign is 1, < 0 when sign is -1
of_sign(s, sign) == SelectSeq(s, LAMBDA e : sign * e.diff > 0)

\* s[:20]
first_20(s) == SubSeq(s, 1, Min(Len(s), 20))

\* the error of compare_brackets carries the two counts in its message; order
\* is the order in which the set all_cards is iterated
compare_brackets(db, flt, bracket_a, bracket_b, order) ==
    LET base == [flt EXCEPT !.commander_cmc = Null, !.commander_name = None]
        ids_a == _get_matching_deck_ids(db, [base EXCEPT !.bracket = bracket_a])
        ids_b == _get_matching_deck_ids(db, [base EXCEPT !.bracket = bracket_b])
        diffs == sort_diffs(collect_diffs(db, ids_a, ids_b, order))
    IN  IF ids_a = {} \/ ids_b = {}
        THEN [error |-> "Need decks in both brackets",
              decks_a |-> Cardinality(ids_a), decks_b |-> Cardinality(ids_b)]
        ELSE [error |-> None,
              decks_a |-> Cardinality(ids_a), decks_b |-> Cardinality(ids_b),
              more_in_bracket_b |-> first_20(of_sign(diffs, 1)),
              more_in_bracket_a |-> first_20(of_sign(diffs, -1))]

NoFilter == [color_identity |-> [none |-> TRUE, colors |-> <<>>],
             bracket |-> Null, commander_cmc |-> Null,
             commander_name |-> None, color_mode |-> "exact"]

get_ramp_by_commander_cmc(db, cmc) ==
    LET deck_ids == _get_matching_deck_ids(
                        db, [NoFilter EXCEPT !.commander_cmc = cmc])
    IN  IF deck_ids = {} THEN Error("No decks with commander CMC", 0)
        ELSE Success(Cardinality(deck_ids))

\* every matching id has a deck row, so cmc_groups is empty only with deck_ids
get_cmc_curve_correlation(db, flt) ==
    LET deck_ids == _get_matching_deck_ids(
                        db, [flt EXCEPT !.commander_cmc = Null,
                                        !.commander_name = None])
        cmc_groups == {db.decks[d].commander_cmc : d \in deck_ids}
    IN  IF deck_ids = {} THEN Error("No matching decks found", 0)
        ELSE IF cmc_groups = {}
        THEN Error("No curve data available", Cardinality(deck_ids))
        ELSE Success(Cardinality(deck_ids))

(***************************************************************************)
(* The categorizer run on a card                                           *)
(***************************************************************************)
CategorizerNames == {"Sol Ring", "Cyclonic Rift", "Island", "Colossal Dreadmaw"}

CategorizerTypeLines == { {}, {"Creature"}, {"Land"}, {"Artifact", "Land"} }

\* every card of the names and type lines above, with either land flag and
\* an oracle text matching any set of categories
CategorizerInputs ==
    { [name |-> n, type_line |-> t, is_land |-> l, oracle_text |-> o] :
        n \in CategorizerNames, t \in CategorizerTypeLines, l \in BOOLEAN,
        o \in {NoText} \cup {Text(m) : m \in SUBSET PatternCategories} }

InitCategorizer ==
    /\ cards = <<>>
    /\ decks = <<>>
    /\ deck_cards = <<>>
    /\ next_id = 1
    /\ llm_cache = <<>>
    /\ manual = {}
    /\ last = NoRun
    /\ card_data \in CategorizerInputs
    /\ categories = <<>>
    /\ result = Nothing
    /\ writers = <<>>

\* categories = categorize_card(card_data)
CategorizeCard ==
    /\ last.op = "none"
    /\ categories' = categorize_card(card_data)
    /\ last' = [NoRun EXCEPT !.op = "categorize_card"]
    /\ UNCHANGED <<writers, cards, decks, deck_cards, next_id, llm_cache,
                   manual, card_data, result>>

NextCategorizer == CategorizeCard

SpecCategorizer == InitCategorizer /\ [][NextCategorizer]_vars

\* C9: for every card categorize_card returns a non-empty list of labels of
\* the fixed vocabulary, and other is in it only when it is the only label.
C9_CategorizeTotal ==
    last.op = "categorize_card" =>
        /\ categories # <<>>
        /\ Range(categories) \subseteq valid_categories
        /\ "other" \in Range(categories) => categories = <<"other">>

\* C9 witness: a card with no staple entry, no land flag, no Land type and no
\* pattern match was categorized as other
C9_Witness ==
    /\ last.op = "categorize_card"
    /\ categories = <<"other">>
    /\ card_data.oracle_text.matches = {}

(***************************************************************************)
(* The analytics queries run on a store built by imports                   *)
(***************************************************************************)
RECURSIVE import_all(_, _, _)
import_all(db, files, online) ==
    IF files = <<>> THEN db
    ELSE IF deck_exists(db, Head(files).filename)
    THEN import_all(db, Tail(files), online)
    ELSE import_all(import_file(db, Head(files) @@ [exists |-> TRUE],
                                FALSE, online).db,
                    Tail(files), online)

QueryFileLists ==
    { <<>>, <<FileWizards>>, <<FileCats>>, <<FileWizards, FileDreams>>,
      <<FileWizards, FileCats>>, <<FileWizards, FileDreams, FileCats>> }

QueryStores ==
    {import_all(EmptyDB, fs, online) : fs \in QueryFileLists, online \in BOOLEAN}

QueryColors ==
    { [none |-> TRUE, colors |-> <<>>], [none |-> FALSE, colors |-> <<>>],
      [none |-> FALSE, colors |-> <<"U">>],
      [none |-> FALSE, colors |-> <<"B", "W">>] }

ColorModes == {"exact", "contains", "subset"}

Reverse(s) == [i \in DOMAIN s |-> s[Len(s) + 1 - i]]

\* orders in which a set of card names may be iterated
SetOrders == {NameOrder, Reverse(NameOrder)}

\* the filters of the queries that take colors, a bracket and a color mode
ColorFilters ==
    { [NoFilter EXCEPT !.color_identity = c, !.bracket = b, !.color_mode = m] :
        c \in QueryColors, b \in {Null, 2, 3}, m \in ColorModes }

CommanderCmcs == {0, 3, 5}

\* --limit
Limits == {1, 50}

InitQuery ==
    /\ \E db \in QueryStores :
          /\ cards = db.cards
          /\ decks = db.decks
          /\ deck_cards = db.deck_cards
          /\ next_id = db.next_id
    /\ llm_cache = <<>>
    /\ manual = {}
    /\ last = NoRun
    /\ card_data = Nothing
    /\ categories = <<>>
    /\ result = Nothing
    /\ writers = <<>>

\* one query is run per invocation of the command line
Returns(query, flt, out) ==
    /\ result = Nothing
    /\ result' = [query |-> query, filter |-> flt, out |-> out]
    /\ UNCHANGED <<writers, cards, decks, deck_cards, next_id, llm_cache,
                   manual, last, card_data, categories>>

\* cmd_staples: --limit is handed on, min_appearances is left at its default
GetTopCards(flt, limit) ==
    /\ result = Nothing
    /\ result' = [query |-> "get_top_cards", filter |-> flt, limit |-> limit,
                  out |-> get_top_cards(DB, flt, limit, 2)]
    /\ UNCHANGED <<writers, cards, decks, deck_cards, next_id, llm_cache,
                   manual, last, card_data, categories>>

GetCurveProfile(flt, cmc) ==
    LET f == [flt EXCEPT !.commander_cmc = cmc]
    IN  Returns("get_curve_profile", f, get_curve_profile(DB, f))

GetCategoryDistribution(flt) ==
    Returns("get_category_distribution", flt, get_category_distribution(DB, flt))

\* cmd_packages with the default --threshold 0.7 and --min-cards 3
FindPackages(flt, order) ==
    Returns("find_packages", flt, find_packages(DB, flt, 70, 3, order))

CompareBrackets(flt, bracket_a, bracket_b, order) ==
    /\ result = Nothing
    /\ ~flt.color_identity.none
    /\ flt.bracket = Null
    /\ result' = [query |-> "compare_brackets", filter |-> flt,
                  bracket_a |-> bracket_a, bracket_b |-> bracket_b,
                  out |-> compare_brackets(DB, flt, bracket_a, bracket_b,
                                           order)]
    /\ UNCHANGED <<writers, cards, decks, deck_cards, next_id, llm_cache,
                   manual, last, card_data, categories>>

GetRampByCommanderCmc(cmc) ==
    Returns("get_ramp_by_commander_cmc",
            [NoFilter EXCEPT !.commander_cmc = cmc],
            get_ramp_by_commander_cmc(DB, cmc))

GetCmcCurveCorrelation(flt) ==
    Returns("get_cmc_curve_correlation", flt, get_cmc_curve_correlation(DB, flt))

NextQuery ==
    \/ \E flt \in ColorFilters, limit \in Limits : GetTopCards(flt, limit)
    \/ \E flt \in ColorFilters, cmc \in CommanderCmcs \cup {Null} :
         GetCurveProfile(flt, cmc)
    \/ \E flt \in ColorFilters : GetCategoryDistribution(flt)
    \/ \E flt \in ColorFilters, order \in SetOrders : FindPackages(flt, order)
    \/ \E flt \in ColorFilters, a, b \in {2, 3}, order \in SetOrders :
           CompareBrackets(flt, a, b, order)
    \/ \E cmc \in CommanderCmcs : GetRampByCommanderCmc(cmc)
    \/ \E flt \in ColorFilters : GetCmcCurveCorrelation(flt)

SpecQuery == InitQuery /\ [][NextQuery]_vars

\* the deck set the last query filtered is empty (for compare_brackets: the
\* deck set of either bracket)
FilteredEmpty ==
    IF result.query = "compare_brackets"
    THEN \E b \in {result.bracket_a, result.bracket_b} :
            _get_matching_deck_ids(DB, [result.filter EXCEPT !.bracket = b]) = {}
    ELSE _get_matching_deck_ids(DB, result.filter) = {}

\* C10: every analytics query returns an error result whenever the deck set
\* it filtered is empty.
C10_EmptySetIsError ==
    (result # Nothing /\ FilteredEmpty) => result.out.error # None

\* C10 witness: a query over a store with decks matched none of them and
\* returned an error
C10_Witness ==
    /\ result # Nothing
    /\ decks # <<>>
    /\ FilteredEmpty
    /\ result.query = "get_top_cards"
    /\ result.out.error # None

\* the cards of the last get_top_cards result, over all category buckets
TopCards ==
    UNION {result.out.cards_by_category[cat] :
              cat \in DOMAIN result.out.cards_by_category}

\* C20: get_top_cards returns at most limit cards in total across all
\* category buckets.
C20_AtMostLimit ==
    (result # Nothing /\ result.query = "get_top_cards"
        /\ result.out.error = None)
    => Cardinality(TopCards) <= result.limit

(***************************************************************************)
(* The package detector run on a store built by imports                    *)
(***************************************************************************)
PackageFileNames ==
    << "Azami, Lady of Scrolls--2--One.txt", "Azami, Lady of Scrolls--2--Two.txt",
       "Azami, Lady of Scrolls--3--Three.txt",
       "Azami, Lady of Scrolls--2--Four.txt" >>

PackageBrackets == <<2, 2, 3, 2>>

\* the i-th deck file, holding one copy of each card of names
PackageFile(i, names) ==
    [filename |-> PackageFileNames[i], parts |-> 3,
     commander_raw |-> <<"Azami, Lady of Scrolls">>,
     bracket_raw |-> [numeric |-> TRUE, value |-> PackageBrackets[i]],
     lines |-> <<Line("commander", "Azami, Lady of Scrolls", 1)>>
               \o [j \in DOMAIN names |-> Line("card", names[j], 1)]]

PackageLists ==
    { <<"Brainstorm", "Counterspell", "Fact or Fiction", "Ponder",
        "Preordain", "Opt">>,
      <<"Negate", "Preordain", "Ponder", "Fact or Fiction", "Counterspell",
        "Brainstorm">>,
      <<"Cultivate", "Farseek", "Harmonize", "Kodama's Reach",
        "Llanowar Elves", "Rampant Growth">>,
      <<"Sol Ring", "Cultivate", "Farseek">>,
      <<"Brainstorm", "Ponder", "Sol Ring", "Thassa's Oracle">> }

MaxPackageDecks == 3

\* the card lists of the decks of a store
PackageListings == UNION {[1..n -> PackageLists] : n \in 0..MaxPackageDecks}

PackageStores ==
    { import_all(EmptyDB, [i \in DOMAIN ls |-> PackageFile(i, ls[i])], TRUE) :
        ls \in PackageListings }

\* --threshold, in hundredths
Thresholds == {50, 70, 100}

MinCards == {2, 3}

PackageFilters == {NoFilter, [NoFilter EXCEPT !.bracket = 2]}

InitPackages ==
    /\ \E db \in PackageStores :
          /\ cards = db.cards
          /\ decks = db.decks
          /\ deck_cards = db.deck_cards
          /\ next_id = db.next_id
    /\ llm_cache = <<>>
    /\ manual = {}
    /\ last = NoRun
    /\ card_data = Nothing
    /\ categories = <<>>
    /\ result = Nothing
    /\ writers = <<>>

\* cmd_packages; order is the order in which the store returns the card names
Packages(flt, min_co_occurrence, min_cards, order) ==
    /\ result = Nothing
    /\ result' = [query |-> "find_packages", filter |-> flt,
                  min_co_occurrence |-> min_co_occurrence,
                  min_cards |-> min_cards,
                  out |-> find_packages(DB, flt, min_co_occurrence, min_cards,
                                        order)]
    /\ UNCHANGED <<writers, cards, decks, deck_cards, next_id, llm_cache,
                   manual, last, card_data, categories>>

NextPackages ==
    \E flt \in PackageFilters, t \in Thresholds, m \in MinCards,
       order \in SetOrders :
        Packages(flt, t, m, order)

SpecPackages == InitPackages /\ [][NextPackages]_vars

\* the decks the last query filtered
Filtered == _get_matching_deck_ids(DB, result.filter)

PackagesRan == result # Nothing /\ result.query = "find_packages"

\* C11: find_packages returns an error result with the number of matching
\* decks and no packages whenever fewer than 3 decks match the filter, and a
\* success result whenever 3 or more match.
C11_ThreeDecksNeeded ==
    PackagesRan =>
        IF Cardinality(Filtered) < 3
        THEN /\ result.out.error # None
             /\ result.out.deck_count = Cardinality(Filtered)
             /\ "packages" \notin DOMAIN result.out
        ELSE /\ result.out.error = None
             /\ "packages" \in DOMAIN result.out

\* C11 witness: two decks matched and the result is an error carrying 2
C11_Witness ==
    /\ PackagesRan
    /\ Cardinality(Filtered) = 2
    /\ result.out.error # None
    /\ result.out.deck_count = 2

Emitted == IF PackagesRan /\ result.out.error = None
           THEN Range(result.out.packages) ELSE {}

\* C12: every package find_packages emits has at least min_cards cards.
C12_MinCards ==
    \A p \in Emitted : Len(p.cards) >= result.min_cards

\* C12 witness: with min_cards 3 a package was emitted although a pair of
\* cards that met the threshold was left out for being only two
C12_Witness ==
    /\ result # Nothing
    /\ result.min_cards = 3
    /\ Emitted # {}
    /\ \E q \in co_occurrence(common_cards(DB, Filtered), NameOrder,
                              result.min_co_occurrence) :
          \A p \in Emitted : q[1] \notin Range(p.cards)

\* C13: for every emitted package, deck_count is the number of filtered decks
\* whose mainboard holds every card of the package, and frequency is that
\* number as a percentage of the filtered decks (to one decimal), so at most
\* 100.
C13_PackageFrequency ==
    \A p \in Emitted :
        LET holders == {d \in Filtered :
                          \A c \in Range(p.cards) :
                             \E i \in DOMAIN deck_cards[d] :
                                /\ deck_cards[d][i].card_name = c
                                /\ deck_cards[d][i].board = "mainboard"}
        IN  /\ p.deck_count = Cardinality(holders)
            /\ p.frequency = RoundTenths(p.deck_count, Cardinality(Filtered))
            /\ p.frequency <= 1000

\* C13 witness: a package held whole by 2 of 3 decks, the third deck holding
\* one of its cards and lacking another
C13_Witness ==
    \E p \in Emitted :
        /\ Cardinality(Filtered) = 3
        /\ p.deck_count = 2
        /\ p.frequency = 667
        /\ \E d \in Filtered, c, e \in Range(p.cards) :
              /\ \E i \in DOMAIN deck_cards[d] : deck_cards[d][i].card_name = c
              /\ \A i \in DOMAIN deck_cards[d] : deck_cards[d][i].card_name # e

\* the cards of deck d that the detector looks at
Playable(d) == mainboard_names(DB, {d}) \ AutoIncludes

\* the detector ran with threshold 0.7 and min_cards 3 over exactly the decks
\* d1, d2, d3, where d1 and d2 have 6 cards apart from auto-includes and
\* share 5 of them, and d3 shares no card with either
TwoOfThreeShareFive(d1, d2, d3) ==
    /\ PackagesRan
    /\ result.min_co_occurrence = 70
    /\ result.min_cards = 3
    /\ Filtered = {d1, d2, d3}
    /\ Cardinality({d1, d2, d3}) = 3
    /\ Cardinality(Playable(d1)) = 6
    /\ Cardinality(Playable(d2)) = 6
    /\ Cardinality(Playable(d1) \cap Playable(d2)) = 5
    /\ mainboard_names(DB, {d3}) \cap mainboard_names(DB, {d1, d2}) = {}

SharedPackage(d1, d2) ==
    [cards |-> sorted_names(Playable(d1) \cap Playable(d2)),
     frequency |-> 667, deck_count |-> 2]

\* C14, as claimed: in that scenario find_packages returns exactly one package,
\* the 5 shared cards with deck_count 2 and frequency 66.7.
C14_OnePackage ==
    \A d1, d2, d3 \in DOMAIN decks :
        TwoOfThreeShareFive(d1, d2, d3) =>
            result.out.packages = <<SharedPackage(d1, d2)>>

\* C14, amended: in that scenario the first package returned is the 5 shared
\* cards with deck_count 2 and frequency 66.7; it is the only package when the
\* third deck has fewer than 3 cards apart from auto-includes, and otherwise a
\* second package follows, made of those cards of the third deck, with
\* deck_count 1 and frequency 33.3.
C14_SharedPackageFirst ==
    \A d1, d2, d3 \in DOMAIN decks :
        TwoOfThreeShareFive(d1, d2, d3) =>
            result.out.packages =
                IF Cardinality(Playable(d3)) < 3
                THEN <<SharedPackage(d1, d2)>>
                ELSE <<SharedPackage(d1, d2),
                       [cards |-> sorted_names(Playable(d3)),
                        frequency |-> 333, deck_count |-> 1]>>

\* C14 witness: the scenario with a third deck of 6 cards, and two packages
C14_Witness ==
    \E d1, d2, d3 \in DOMAIN decks :
        /\ TwoOfThreeShareFive(d1, d2, d3)
        /\ Cardinality(Playable(d3)) = 6
        /\ Len(result.out.packages) = 2

(***************************************************************************)
(* The bracket comparison run on a store of 10 decks of bracket 2 and 10   *)
(* decks of bracket 3                                                      *)
(***************************************************************************)
CompareFileNames ==
    << "Azami, Lady of Scrolls--2--A01.txt", "Azami, Lady of Scrolls--2--A02.txt",
       "Azami, Lady of Scrolls--2--A03.txt", "Azami, Lady of Scrolls--2--A04.txt",
       "Azami, Lady of Scrolls--2--A05.txt", "Azami, Lady of Scrolls--2--A06.txt",
       "Azami, Lady of Scrolls--2--A07.txt", "Azami, Lady of Scrolls--2--A08.txt",
       "Azami, Lady of Scrolls--2--A09.txt", "Azami, Lady of Scrolls--2--A10.txt",
       "Azami, Lady of Scrolls--3--B01.txt", "Azami, Lady of Scrolls--3--B02.txt",
       "Azami, Lady of Scrolls--3--B03.txt", "Azami, Lady of Scrolls--3--B04.txt",
       "Azami, Lady of Scrolls--3--B05.txt", "Azami, Lady of Scrolls--3--B06.txt",
       "Azami, Lady of Scrolls--3--B07.txt", "Azami, Lady of Scrolls--3--B08.txt",
       "Azami, Lady of Scrolls--3--B09.txt", "Azami, Lady of Scrolls--3--B10.txt" >>

Fillers ==
    << "Filler 01", "Filler 02", "Filler 03", "Filler 04", "Filler 05",
       "Filler 06", "Filler 07", "Filler 08", "Filler 09", "Filler 10",
       "Filler 11", "Filler 12", "Filler 13", "Filler 14", "Filler 15",
       "Filler 16", "Filler 17", "Filler 18", "Filler 19", "Filler 20",
       "Filler 21" >>

\* the cards of the i-th deck: Cyclonic Rift and the fillers after the first
\* `everywhere` in 9 of the 10 decks of bracket 2 (files 1 to 9) and 1 of the
\* 10 decks of bracket 3 (file 11); the first `everywhere` fillers in every
\* deck of bracket 2; Blasphemous Act in every deck of bracket 3; Island in
\* every deck; Brainstorm in 7 decks of bracket 2 and 9 of bracket 3; Ponder
\* in 5 decks of bracket 2 and 7 of bracket 3
CompareNames(i, everywhere, alike) ==
    <<"Island">>
    \o (IF i <= 7 \/ (11 <= i /\ i <= 19) THEN <<"Brainstorm">> ELSE <<>>)
    \o (IF i <= 5 \/ (11 <= i /\ i <= 17) THEN <<"Ponder">> ELSE <<>>)
    \o (IF i <= 10 THEN SubSeq(Fillers, 1, everywhere)
        ELSE <<"Blasphemous Act">>)
    \o (IF i <= 9 \/ i = 11
        THEN <<"Cyclonic Rift">>
             \o SubSeq(Fillers, everywhere + 1, everywhere + alike)
        ELSE <<>>)

CompareFile(i, everywhere, alike) ==
    [filename |-> CompareFileNames[i], parts |-> 3,
     commander_raw |-> <<"Azami, Lady of Scrolls">>,
     bracket_raw |-> [numeric |-> TRUE, value |-> IF i <= 10 THEN 2 ELSE 3],
     lines |-> <<Line("commander", "Azami, Lady of Scrolls", 1)>>
               \o [j \in DOMAIN CompareNames(i, everywhere, alike) |->
                     Line("card", CompareNames(i, everywhere, alike)[j], 1)]]

\* how many fillers are in every deck of bracket 2, and how many are spread
\* like Cyclonic Rift
FillerCounts == {<<0, 0>>, <<0, 1>>, <<19, 0>>, <<19, 1>>, <<20, 0>>, <<20, 1>>}

CompareStores ==
    { import_all(EmptyDB,
                 [i \in DOMAIN CompareFileNames |-> CompareFile(i, c[1], c[2])],
                 TRUE) : c \in FillerCounts }

CompareFilters ==
    { [NoFilter EXCEPT !.color_identity = [none |-> FALSE, colors |-> c],
                       !.color_mode = m] :
        c \in {<<>>, <<"U">>, <<"G">>}, m \in ColorModes }

InitCompare ==
    /\ \E db \in CompareStores :
          /\ cards = db.cards
          /\ decks = db.decks
          /\ deck_cards = db.deck_cards
          /\ next_id = db.next_id
    /\ llm_cache = <<>>
    /\ manual = {}
    /\ last = NoRun
    /\ card_data = Nothing
    /\ categories = <<>>
    /\ result = Nothing
    /\ writers = <<>>

NextCompare ==
    \E flt \in CompareFilters, a, b \in {2, 3}, order \in SetOrders :
        CompareBrackets(flt, a, b, order)

SpecCompare == InitCompare /\ [][NextCompare]_vars

\* the decks of bracket b that the last comparison filtered
BracketDecks(b) ==
    _get_matching_deck_ids(DB, [result.filter EXCEPT !.bracket = b])

\* the number of decks of bracket b holding the card on their mainboard
Holders(b, card) ==
    Cardinality({d \in BracketDecks(b) : card \in mainboard_names(DB, {d})})

\* brackets 2 and 3 were compared, in this order, and the card is on the
\* mainboard of 90% of the decks of bracket 2 and 10% of those of bracket 3
NinetyToTen(card) ==
    /\ result # Nothing
    /\ result.query = "compare_brackets"
    /\ result.bracket_a = 2
    /\ result.bracket_b = 3
    /\ result.out.error = None
    /\ 10 * Holders(2, card) = 9 * Cardinality(BracketDecks(2))
    /\ 10 * Holders(3, card) = Cardinality(BracketDecks(3))

\* C15, as claimed: such a card is reported among the cards more common in
\* bracket 2 with diff 80.0.
C15_DiffEighty ==
    \A card \in DOMAIN cards :
        NinetyToTen(card) =>
            \E i \in DOMAIN result.out.more_in_bracket_a :
                /\ result.out.more_in_bracket_a[i].name = card
                /\ result.out.more_in_bracket_a[i].diff = 800

\* the other cards played in bracket 2 at a rate at least 80 points above
\* their rate in bracket 3
AtLeastEightyAhead(card) ==
    {c \in DOMAIN cards \ {card} :
        10 * (Holders(2, c) * Cardinality(BracketDecks(3))
              - Holders(3, c) * Cardinality(BracketDecks(2)))
          >= 8 * Cardinality(BracketDecks(2)) * Cardinality(BracketDecks(3))}

\* C15, amended: such a card is reported among the cards more common in
\* bracket 2 with diff -80.0 (bracket 3's rate minus bracket 2's), provided
\* fewer than 20 other cards are at least 80 points ahead in bracket 2.
C15_DiffMinusEighty ==
    \A card \in DOMAIN cards :
        (NinetyToTen(card) /\ Cardinality(AtLeastEightyAhead(card)) < 20) =>
            \E i \in DOMAIN result.out.more_in_bracket_a :
                /\ result.out.more_in_bracket_a[i].name = card
                /\ result.out.more_in_bracket_a[i].diff = -800

\* C15 witness: Cyclonic Rift, at 90% against 10%, is the last of 20 cards
\* reported as more common in bracket 2
C15_Witness ==
    /\ NinetyToTen("Cyclonic Rift")
    /\ Len(result.out.more_in_bracket_a) = 20
    /\ result.out.more_in_bracket_a[20].name = "Cyclonic Rift"
    /\ result.out.more_in_bracket_a[20].diff = -800
    /\ Cardinality(AtLeastEightyAhead("Cyclonic Rift")) = 19

(***************************************************************************)
(* The filter engine run on a store built by imports                       *)
(***************************************************************************)
\* the deck file of a commander (and partner), with no card line but its own
CommanderFile(filename, commanders, bracket_raw) ==
    [filename |-> filename, parts |-> 2 + Len(commanders),
     commander_raw |-> commanders, bracket_raw |-> bracket_raw,
     lines |-> <<Line("commander", commanders[1], 1)>>]

FilterFiles ==
    << CommanderFile("Azami, Lady of Scrolls--2--Mono.txt",
                     <<"Azami, Lady of Scrolls">>,
                     [numeric |-> TRUE, value |-> 2]),
       CommanderFile("Lurrus of the Dream-Den+Azami, Lady of Scrolls--3--Pair.txt",
                     <<"Lurrus of the Dream-Den", "Azami, Lady of Scrolls">>,
                     [numeric |-> TRUE, value |-> 3]),
       CommanderFile("Kenrith, the Returned King--3--Five.txt",
                     <<"Kenrith, the Returned King">>,
                     [numeric |-> TRUE, value |-> 3]),
       CommanderFile("Karn, Silver Golem--x--None.txt",
                     <<"Karn, Silver Golem">>,
                     [numeric |-> FALSE, value |-> 0]),
       CommanderFile("Niv-Mizzet, Parun--2--Two.txt",
                     <<"Niv-Mizzet, Parun">>,
                     [numeric |-> TRUE, value |-> 2]),
       CommanderFile("Lurrus of the Dream-Den--2--Cat.txt",
                     <<"Lurrus of the Dream-Den">>,
                     [numeric |-> TRUE, value |-> 2]) >>

\* the files at the indexes of I, in the order of FilterFiles
FilesAt(I) == SelectSeq(FilterFiles, LAMBDA f : \E i \in I : FilterFiles[i] = f)

FilterStores ==
    { import_all(EmptyDB, FilesAt(I), TRUE) : I \in SUBSET DOMAIN FilterFiles }

FilterColors ==
    { [none |-> TRUE, colors |-> <<>>], [none |-> FALSE, colors |-> <<>>],
      [none |-> FALSE, colors |-> <<"U">>],
      [none |-> FALSE, colors |-> <<"U", "U">>],
      [none |-> FALSE, colors |-> <<"B", "W">>],
      [none |-> FALSE, colors |-> <<"R", "U">>],
      [none |-> FALSE, colors |-> <<"G">>],
      [none |-> FALSE, colors |-> <<"W", "U", "B", "R", "G">>] }

Filters ==
    { [color_identity |-> c, bracket |-> b, commander_cmc |-> m,
       commander_name |-> n, color_mode |-> mode] :
        c \in FilterColors, b \in {Null, 2, 3}, m \in {Null, 3, 5},
        n \in {None, "Azami, Lady of Scrolls", "Lurrus of the Dream-Den"},
        mode \in ColorModes }

InitFilter ==
    /\ \E db \in FilterStores :
          /\ cards = db.cards
          /\ decks = db.decks
          /\ deck_cards = db.deck_cards
          /\ next_id = db.next_id
    /\ llm_cache = <<>>
    /\ manual = {}
    /\ last = NoRun
    /\ card_data = Nothing
    /\ categories = <<>>
    /\ result = Nothing
    /\ writers = <<>>

GetMatchingDeckIds(flt) ==
    /\ result = Nothing
    /\ result' = [query |-> "_get_matching_deck_ids", filter |-> flt,
                  out |-> [error |-> None,
                           deck_ids |-> _get_matching_deck_ids(DB, flt)]]
    /\ UNCHANGED <<writers, cards, decks, deck_cards, next_id, llm_cache,
                   manual, last, card_data, categories>>

NextFilter == \E flt \in Filters : GetMatchingDeckIds(flt)

SpecFilter == InitFilter /\ [][NextFilter]_vars

\* the filter engine ran with a color predicate in the given mode and no
\* other predicate
OnlyColors(mode) ==
    /\ result # Nothing
    /\ result.query = "_get_matching_deck_ids"
    /\ ~result.filter.color_identity.none
    /\ result.filter.color_mode = mode
    /\ result.filter.bracket = Null
    /\ result.filter.commander_cmc = Null
    /\ result.filter.commander_name = None

Queried == Range(result.filter.color_identity.colors)

KeySymbols(d) == Range(decks[d].color_identity_key)

\* C16: with only a color predicate in contains mode the decks returned are
\* exactly those whose key includes every queried symbol; an empty color list
\* returns every deck.
C16_Contains ==
    OnlyColors("contains") =>
        /\ result.out.deck_ids =
              {d \in DOMAIN decks : Queried \subseteq KeySymbols(d)}
        /\ Queried = {} => result.out.deck_ids = DOMAIN decks

\* C16 witness: a query of two colors returned a deck with more colors than
\* the two and left out a deck holding only one of the two
C16_Witness ==
    /\ OnlyColors("contains")
    /\ Cardinality(Queried) = 2
    /\ \E d \in result.out.deck_ids : Cardinality(KeySymbols(d)) > 2
    /\ \E d \in DOMAIN decks \ result.out.deck_ids :
          Queried \cap KeySymbols(d) # {}

\* C17: with only a color predicate in subset mode the decks returned are
\* exactly those whose key has no symbol outside the queried colors; querying
\* all five symbols returns every deck.
C17_Subset ==
    OnlyColors("subset") =>
        /\ result.out.deck_ids =
              {d \in DOMAIN decks : KeySymbols(d) \subseteq Queried}
        /\ Queried = Range(WUBRG) => result.out.deck_ids = DOMAIN decks

\* C17 witness: a query of two colors returned a colorless deck and a deck of
\* one of the two colors, and left out a deck with a third color
C17_Witness ==
    /\ OnlyColors("subset")
    /\ Cardinality(Queried) = 2
    /\ \E d \in result.out.deck_ids : KeySymbols(d) = {}
    /\ \E d \in result.out.deck_ids : Cardinality(KeySymbols(d)) = 1
    /\ \E d \in DOMAIN decks \ result.out.deck_ids :
          Queried \subseteq KeySymbols(d)

\* C18: with only a color predicate in exact mode the decks returned are
\* exactly those whose key is the queried colors made canonical (each symbol
\* once, in W,U,B,R,G order), whether or not the query list is ordered or
\* repeats a symbol.
C18_Exact ==
    OnlyColors("exact") =>
        result.out.deck_ids =
            {d \in DOMAIN decks :
                decks[d].color_identity_key = SortColorSet(Queried)}

\* the predicates of the filter other than the color one hold of deck d
OtherPredicates(d) ==
    /\ result.filter.bracket # Null => decks[d].bracket = result.filter.bracket
    /\ result.filter.commander_cmc # Null =>
          decks[d].commander_cmc = result.filter.commander_cmc
    /\ result.filter.commander_name # None =>
          \/ decks[d].commander_name = result.filter.commander_name
          \/ decks[d].partner_name = result.filter.commander_name

\* the decks the color predicate of the filter returns when it is the only one
ColorAlone ==
    _get_matching_deck_ids(
        DB, [NoFilter EXCEPT !.color_identity = result.filter.color_identity,
                             !.color_mode = result.filter.color_mode])

\* C19: the decks returned are exactly those that satisfy every supplied
\* predicate at once, the commander name being that of the primary commander
\* or of the partner; with no predicate every deck is returned.
C19_Conjunction ==
    (result # Nothing /\ result.query = "_get_matching_deck_ids") =>
        /\ result.out.deck_ids =
              {d \in ColorAlone : OtherPredicates(d)}
        /\ (/\ result.filter.color_identity.none
            /\ result.filter.bracket = Null
            /\ result.filter.commander_cmc = Null
            /\ result.filter.commander_name = None)
           => result.out.deck_ids = DOMAIN decks

\* C19 witness: a color, a bracket, a mana value and a commander name were
\* all supplied; the deck returned has the name as its partner, and a deck
\* with that name as its commander fails another predicate
C19_Witness ==
    /\ result # Nothing
    /\ result.query = "_get_matching_deck_ids"
    /\ ~result.filter.color_identity.none
    /\ result.filter.bracket # Null
    /\ result.filter.commander_cmc # Null
    /\ result.filter.commander_name # None
    /\ \E d \in result.out.deck_ids :
          decks[d].partner_name = result.filter.commander_name
    /\ \E d \in DOMAIN decks \ result.out.deck_ids :
          decks[d].commander_name = result.filter.commander_name

(***************************************************************************)
(* Properties of the store commands                                        *)
(***************************************************************************)
\* the quantity on the rows of deck d that satisfy P
QuantityWhere(d, P(_)) ==
    LET rows == JoinedRows(DB, d)
    IN  SumOver([i \in DOMAIN rows |-> rows[i].quantity],
                {i \in DOMAIN rows : P(rows[i])})

\* the stored statistics of deck d are the aggregate of the current tables
Fresh(d) == StoredStats(decks[d]) = deck_stats(DB, d)

\* a batch external reclassification ran in the last command and updated cards
LLMUpdated == last.op \in {"categorize", "import"} /\ last.updated # {}

\* C1: after any sequence of imports, tag sets and batch external
\* reclassifications, every deck's stored total cards, land count, curve
\* histogram and category counts equal the aggregate recomputed from the
\* current deck_cards rows joined with the current cards.
C1_StatsAlwaysCurrent ==
    \A d \in DOMAIN decks :
        LET st == deck_stats(DB, d)
        IN  /\ decks[d].total_cards = st.total_cards
            /\ decks[d].land_count = st.land_count
            /\ decks[d].curve = st.curve
            /\ decks[d].category_counts = st.category_counts

\* C2: a batch external reclassification that changes the categories of at
\* least one card ends without raising, and the statistics of every deck
\* that holds a changed card are then the aggregate of the new categories.
C2_BatchRecomputes ==
    LLMUpdated =>
        /\ last.raised = None
        /\ \A d \in decks_with_any(DB, last.updated) : Fresh(d)

\* C3: a batch external reclassification never changes the categories of a
\* card whose categories were set by a tag set, whatever labels were set.
C3_ManualEditsKept ==
    last.op \in {"categorize", "import"} => manual \cap last.updated = {}

\* C4: in every store state each card's category list is non-empty and holds
\* only labels of the fixed vocabulary.
C4_Vocabulary ==
    \A n \in DOMAIN cards :
        /\ cards[n].categories # <<>>
        /\ Range(cards[n].categories) \subseteq valid_categories

\* C5: update_deck_stats counts mainboard rows only: the statistics it stores
\* are the aggregate over the rows whose board is mainboard.
C5_OnlyMainboardCounted ==
    \A d \in last.recomputed :
        LET rows == JoinedRows(DB, d)
        IN  StoredStats(decks[d]) =
                stats_over(rows, {i \in DOMAIN rows : rows[i].board = "mainboard"})

IsNonCommander(row) == row.board # "commander"
IsNonCommanderLand(row) == row.board # "commander" /\ row.is_land
IsNonCommanderBig(row) == row.board # "commander" /\ ~row.is_land /\ row.cmc >= 6
IsMainboard(row) == row.board = "mainboard"

\* C6: for every deck the seven curve buckets sum to the stored total card
\* count minus the stored land count, and after update_deck_stats bucket 6
\* holds the quantity of every counted non-land card of mana value 6 or more.
C6_CurveSum ==
    /\ \A d \in DOMAIN decks :
           SumOver(decks[d].curve, 0..6) =
               decks[d].total_cards - decks[d].land_count
    /\ \A d \in last.recomputed :
           /\ decks[d].total_cards = QuantityWhere(d, IsNonCommander)
           /\ decks[d].land_count = QuantityWhere(d, IsNonCommanderLand)
           /\ decks[d].curve[6] = QuantityWhere(d, IsNonCommanderBig)

\* C6 witness: a deck just aggregated that holds lands and two counted
\* non-land cards of mana value 6 and 9
C6_Witness ==
    \E d \in last.recomputed :
        /\ decks[d].land_count > 0
        /\ decks[d].curve[6] >= 2

CategoryCountSum(d) ==
    SumOver(decks[d].category_counts, DOMAIN decks[d].category_counts)

C8_Idempotent ==
    [][\A d \in DOMAIN decks :
          (/\ last'.op = "update_deck_stats"
           /\ last'.status = "rerun"
           /\ last'.recomputed = {d}) => decks' = decks]_vars

\* C8 witness: the aggregator was run again on a deck that holds cards
C8_Witness ==
    /\ last.op = "update_deck_stats"
    /\ last.status = "rerun"
    /\ \E d \in last.recomputed : decks[d].total_cards > 0

(***************************************************************************)
(* Decks stored through db.insert_deck with no card record for some of     *)
(* their entries                                                           *)
(***************************************************************************)
\* deck data as db.insert_deck takes it; no insert_card call precedes it
UnrecordedDeck(source_file) ==
    [source_file |-> source_file,
     commander_name |-> "Azami, Lady of Scrolls", partner_name |-> None,
     color_identity_key |-> <<"U">>, bracket |-> 2, commander_cmc |-> 5,
     cards |-> << [name |-> "Azami, Lady of Scrolls", quantity |-> 1,
                   board |-> "commander"],
                  [name |-> "Island", quantity |-> 10, board |-> "mainboard"],
                  [name |-> "Thassa's Oracle", quantity |-> 2,
                   board |-> "mainboard"] >>]

UnrecordedStores ==
    UNION { { insert_deck(db, UnrecordedDeck("Azami - Ann - 2.txt")),
              insert_deck(insert_deck(db, UnrecordedDeck("Azami - Ann - 2.txt")),
                          UnrecordedDeck("Azami - Bob - 2.txt")) } :
            db \in {s \in QueryStores : Cardinality(DOMAIN s.decks) <= 1} }

InitUnrecorded ==
    /\ \E db \in UnrecordedStores :
          /\ cards = db.cards
          /\ decks = db.decks
          /\ deck_cards = db.deck_cards
          /\ next_id = db.next_id
    /\ llm_cache = <<>>
    /\ manual = {}
    /\ last = NoRun
    /\ card_data = Nothing
    /\ categories = <<>>
    /\ result = Nothing
    /\ writers = <<>>

NextUnrecorded ==
    \/ \E d \in DOMAIN decks : UpdateDeckStats(d)
    \/ NextQuery

SpecUnrecorded == InitUnrecorded /\ [][NextUnrecorded]_vars

\* the mainboard card names of deck d that have no card record
Unrecorded(d) ==
    {deck_cards[d][i].card_name : i \in DOMAIN deck_cards[d]} \ DOMAIN cards

\* the store with a record of a non-land card of mana value 0 and no label
\* for every card name the decks hold without one
WithBlankCards ==
    [DB EXCEPT !.cards =
        @ @@ [n \in UNION {Unrecorded(d) : d \in DOMAIN deck_cards} |->
                [scryfall_id |-> None, name |-> n, cmc |-> 0, type_line |-> {},
                 is_land |-> FALSE, is_creature |-> FALSE,
                 categories |-> <<>>]]]

DecksHolding(c) ==
    {d \in Filtered : \E i \in DOMAIN deck_cards[d] :
                         /\ deck_cards[d][i].card_name = c
                         /\ deck_cards[d][i].board = "mainboard"}

\* the Jaccard similarity of cards a and b is at least t hundredths
Similar(a, b, t) ==
    100 * Cardinality(DecksHolding(a) \cap DecksHolding(b))
        >= t * Cardinality(DecksHolding(a) \cup DecksHolding(b))

\* C22: in every package emitted by find_packages, every pair of distinct
\* member cards has Jaccard similarity, over their deck sets within the
\* filtered decks, at or above the threshold.
C22_AllPairsSimilar ==
    \A p \in Emitted :
        \A a, b \in Range(p.cards) :
            a # b => Similar(a, b, result.min_co_occurrence)

\* C22 witness: a package of more than two cards was emitted, and a card left
\* out of it meets the threshold with one of its members and misses it with
\* another
C22_Witness ==
    \E p \in Emitted :
        /\ Len(p.cards) > 2
        /\ \E c \in mainboard_names(DB, Filtered) \ Range(p.cards) :
              /\ c \notin AutoIncludes
              /\ \E a \in Range(p.cards) : Similar(a, c, result.min_co_occurrence)
              /\ \E b \in Range(p.cards) : ~Similar(b, c, result.min_co_occurrence)

\* C23: no card appears in more than one package of the same find_packages
\* result.
C23_CardInOnePackage ==
    PackagesRan /\ result.out.error = None =>
        \A i, j \in DOMAIN result.out.packages :
            i # j => Range(result.out.packages[i].cards)
                        \cap Range(result.out.packages[j].cards) = {}

\* C24: for a fixed store and fixed parameters the result of find_packages is
\* the same whatever the order in which the card rows are returned.
C24_OrderIndependent ==
    PackagesRan =>
        \A order \in SetOrders :
            result.out = find_packages(DB, result.filter,
                                       result.min_co_occurrence,
                                       result.min_cards, order)

\* C24 witness: two packages were returned, and two pairs of cards of the
\* first one have the same similarity
C24_Witness ==
    /\ PackagesRan
    /\ result.out.error = None
    /\ Len(result.out.packages) >= 2
    /\ \E a, b, c \in Range(result.out.packages[1].cards) :
          /\ Cardinality({a, b, c}) = 3
          /\ DecksHolding(a) = DecksHolding(b)
          /\ DecksHolding(b) = DecksHolding(c)

(***************************************************************************)
(* find_packages over stores of four decks                                 *)
(***************************************************************************)
FourDeckLists ==
    { <<"Brainstorm", "Counterspell", "Fact or Fiction", "Ponder",
        "Preordain", "Opt">>,
      <<"Cultivate", "Farseek", "Harmonize", "Kodama's Reach",
        "Llanowar Elves", "Rampant Growth">>,
      <<"Sol Ring", "Cultivate", "Farseek">> }

FourDeckStores ==
    { import_all(EmptyDB, [i \in 1..4 |-> PackageFile(i, ls[i])], TRUE) :
        ls \in [1..4 -> FourDeckLists] }

InitFourDecks ==
    /\ \E db \in FourDeckStores :
          /\ cards = db.cards
          /\ decks = db.decks
          /\ deck_cards = db.deck_cards
          /\ next_id = db.next_id
    /\ llm_cache = <<>>
    /\ manual = {}
    /\ last = NoRun
    /\ card_data = Nothing
    /\ categories = <<>>
    /\ result = Nothing
    /\ writers = <<>>

SpecFourDecks == InitFourDecks /\ [][NextPackages]_vars

\* C25: every member card of every package emitted by find_packages is in
\* the mainboard of at least 30% of the filtered decks and is none of Sol
\* Ring, Command Tower, Arcane Signet.
C25_MembersCommon ==
    \A p \in Emitted :
        \A c \in Range(p.cards) :
            /\ 10 * Cardinality(DecksHolding(c)) >= 3 * Cardinality(Filtered)
            /\ c \notin {"Sol Ring", "Command Tower", "Arcane Signet"}

\* C25 witness: a package was emitted from four decks, one of which holds
\* Sol Ring and cards that are in no other deck
C25_Witness ==
    /\ Emitted # {}
    /\ Cardinality(Filtered) = 4
    /\ DecksHolding("Sol Ring") # {}
    /\ \E c, e \in mainboard_names(DB, Filtered) :
          /\ c # e
          /\ DecksHolding(c) = DecksHolding(e)
          /\ Cardinality(DecksHolding(c)) = 1

(***************************************************************************)
(* The two lists of one compare_brackets result                            *)
(***************************************************************************)
Compared ==
    /\ result # Nothing
    /\ result.query = "compare_brackets"
    /\ result.out.error = None

\* the names listed in s
Listed(s) == {s[i].name : i \in DOMAIN s}

\* rate of the card in bracket b minus its rate in bracket a, times the
\* product of the two deck counts
RateGap(a, b, card) ==
    Holders(b, card) * Cardinality(BracketDecks(a))
        - Holders(a, card) * Cardinality(BracketDecks(b))

\* the play-rates of the card in brackets a and b differ by strictly more
\* than 20 percentage points
MoreThanTwentyApart(a, b, card) ==
    5 * Abs(RateGap(a, b, card))
        > Cardinality(BracketDecks(a)) * Cardinality(BracketDecks(b))

DescendingCapped(s) ==
    /\ Len(s) <= 20
    /\ \A i, j \in DOMAIN s : i < j => Abs(s[i].diff) >= Abs(s[j].diff)

\* C26: compare_brackets reports a card if and only if its play-rates in the
\* two brackets differ by strictly more than 20 percentage points; each
\* reported card is listed only on the side of the bracket where its rate is
\* higher; each side is ordered by absolute difference descending and holds
\* at most 20 cards.
C26_ReportedIffTwentyApart ==
    Compared =>
        LET a == result.bracket_a
            b == result.bracket_b
            in_a == Listed(result.out.more_in_bracket_a)
            in_b == Listed(result.out.more_in_bracket_b)
        IN  /\ \A card \in mainboard_names(DB, BracketDecks(a) \cup BracketDecks(b)) :
                  card \in in_a \cup in_b <=> MoreThanTwentyApart(a, b, card)
            /\ \A card \in in_a : RateGap(a, b, card) < 0 /\ card \notin in_b
            /\ \A card \in in_b : RateGap(a, b, card) > 0
            /\ DescendingCapped(result.out.more_in_bracket_a)
            /\ DescendingCapped(result.out.more_in_bracket_b)

\* C28: for a card flagged as a land whose name is not in the staples table,
\* categorize_card returns exactly the label land, whichever category
\* patterns its oracle text matches.
C28_PlainLand ==
    (/\ last.op = "categorize_card"
     /\ card_data.is_land
     /\ KNOWN_CARD_CATEGORIES(card_data.name) = {}) =>
        categories = <<"land">>

\* C28 witness: a land outside the staples table whose oracle text matches
\* the ramp and draw patterns was categorized as land alone
C28_Witness ==
    /\ last.op = "categorize_card"
    /\ card_data.is_land
    /\ card_data.name = "Island"
    /\ {"ramp", "draw"} \subseteq card_data.oracle_text.matches
    /\ categories = <<"land">>

\* the alphabetically first label of the stored category list of a card,
\* other when the card has no label
FirstLabel(name) ==
    IF name \in DOMAIN cards /\ cards[name].categories # <<>>
    THEN CHOOSE l \in Range(cards[name].categories) :
            \A m \in Range(cards[name].categories) : LabelRank(l) <= LabelRank(m)
    ELSE "other"

\* C27: in a get_top_cards result every reported card appears in exactly one
\* category bucket, that of the alphabetically first label of its stored
\* category list (other when it has none), and is on the mainboard of at
\* least min_appearances (2) of the filtered decks.
C27_OneBucket ==
    (/\ result # Nothing
     /\ result.query = "get_top_cards"
     /\ result.out.error = None) =>
        \A e \in TopCards :
            /\ {cat \in DOMAIN result.out.cards_by_category :
                   \E x \in result.out.cards_by_category[cat] : x.name = e.name}
                 = {FirstLabel(e.name)}
            /\ Cardinality({x \in TopCards : x.name = e.name}) = 1
            /\ Cardinality(DecksHolding(e.name)) >= 2

\* C27 witness: a card stored with two labels is reported, and a mainboard
\* card of a single filtered deck is not
C27_Witness ==
    /\ result # Nothing
    /\ result.query = "get_top_cards"
    /\ result.out.error = None
    /\ \E e \in TopCards : Len(cards[e.name].categories) = 2
    /\ \E n \in mainboard_names(DB, Filtered) :
          /\ Cardinality(DecksHolding(n)) = 1
          /\ \A e \in TopCards : e.name # n

\* C30: an import of a deck file that fails to parse leaves the store
\* unchanged, also with --force: the deck imported earlier from the same
\* source file and its deck-cards are still there.
C30_FailedImportKeepsStore ==
    [][(last'.op = "import" /\ last'.status = "error") =>
          /\ cards' = cards
          /\ decks' = decks
          /\ deck_cards' = deck_cards]_vars

(***************************************************************************)
(* Two tag set commands run as two processes on one store, each with its   *)
(* own connection.  A writer's steps are its committed statements: the     *)
(* UPDATE of the card (with the SELECT of the deck ids, deck_cards never   *)
(* changing here), then for each deck the SELECT of update_deck_stats and  *)
(* its UPDATE of the deck row.                                             *)
(***************************************************************************)
Writers == {1, 2}

\* the categories arguments that pass the validation of lines 470-475
WriterCategories == {k \in TagCategories : Range(k) \subseteq valid_categories}

TagJob(card_name, cats) ==
    [pc |-> "update", card_name |-> card_name, cats |-> cats, todo |-> {},
     deck_id |-> Null, stats |-> Nothing]

InitWriters ==
    /\ \E db \in {s \in QueryStores : s.decks # <<>>} :
          /\ cards = db.cards
          /\ decks = db.decks
          /\ deck_cards = db.deck_cards
          /\ next_id = db.next_id
          /\ \E c1, c2 \in DOMAIN db.cards, k1, k2 \in WriterCategories :
                /\ c1 # c2
                /\ decks_with_card(db, c1) \cap decks_with_card(db, c2) # {}
                /\ writers = <<TagJob(c1, k1), TagJob(c2, k2)>>
    /\ llm_cache = <<>>
    /\ manual = {}
    /\ last = NoRun
    /\ card_data = Nothing
    /\ categories = <<>>
    /\ result = Nothing

\* cmd_tag, lines 493-503: UPDATE cards, commit, SELECT DISTINCT deck_id
TagUpdate(w) ==
    /\ writers[w].pc = "update"
    /\ cards' = [cards EXCEPT ![writers[w].card_name].categories =
                                  sorted(writers[w].cats)]
    /\ manual' = manual \cup {writers[w].card_name}
    /\ writers' = [writers EXCEPT
                      ![w].pc = "read",
                      ![w].todo = decks_with_card(DB, writers[w].card_name)]
    /\ UNCHANGED <<decks, deck_cards, next_id, llm_cache, last, card_data,
                   categories, result>>

\* update_deck_stats, lines 148-194, for a deck of the loop of line 504: the
\* join is read and the statistics are computed from it
StatsRead(w) ==
    /\ writers[w].pc = "read"
    /\ \E d \in writers[w].todo :
          writers' = [writers EXCEPT ![w].pc = "write", ![w].deck_id = d,
                                     ![w].stats = deck_stats(DB, d)]
    /\ UNCHANGED <<cards, decks, deck_cards, next_id, llm_cache, manual, last,
                   card_data, categories, result>>

\* update_deck_stats, lines 196-208: UPDATE decks with the statistics
\* computed, commit
StatsWrite(w) ==
    /\ writers[w].pc = "write"
    /\ decks' = [decks EXCEPT ![writers[w].deck_id] =
                    [k \in DOMAIN @ |-> IF k \in StatFields
                                        THEN writers[w].stats[k] ELSE @[k]]]
    /\ writers' = [writers EXCEPT
                      ![w].pc = IF writers[w].todo = {writers[w].deck_id}
                                THEN "done" ELSE "read",
                      ![w].todo = @ \ {writers[w].deck_id},
                      ![w].deck_id = Null,
                      ![w].stats = Nothing]
    /\ UNCHANGED <<cards, deck_cards, next_id, llm_cache, manual, last,
                   card_data, categories, result>>

NextWriters ==
    \E w \in Writers : TagUpdate(w) \/ StatsRead(w) \/ StatsWrite(w)

SpecWriters == InitWriters /\ [][NextWriters]_vars

\* C29: when two writers run tag set concurrently on two different cards of
\* the same deck, then under every interleaving of their steps, once both
\* have finished the stored statistics of the decks they recomputed equal
\* the aggregate over the final card categories.
C29_StatsCurrentWhenDone ==
    (writers # <<>> /\ \A w \in Writers : writers[w].pc = "done") =>
        \A w \in Writers :
            \A d \in decks_with_card(DB, writers[w].card_name) :
                StoredStats(decks[d]) = deck_stats(DB, d)

====
